---- MODULE Spec2Model ----
(***************************************************************************)
(* Scraper dispatch + extraction + caching pipeline of purchase-agency.    *)
(*                                                                         *)
(* Two packages are modelled:                                              *)
(*   app/utils   : ProductScraper.scrape_product over utils.CacheManager   *)
(*   app/scraper : CacheManager.get/set/delete/clear                       *)
(*                                                                         *)
(* Time is counted in whole days.  Python values (payloads) and JSON texts *)
(* are records of one shape [t, s, items]; a dict keeps its items as the   *)
(* alternating sequence <<key1, value1, key2, value2, ...>>.               *)
(***************************************************************************)
EXTENDS Integers, Sequences, FiniteSets, TLC

VARIABLES
    now,                 \* datetime.now(), in days
    dir,                 \* app/data/cache: file name -> [mtime, body]
    written,             \* history: url text -> payload of the last successful save
    use_cache,           \* ProductScraper.use_cache
    cache_max_age_days,  \* ProductScraper.cache_max_age_days
    calls,               \* scrape_product coroutines suspended at their await
    last,                \* the call that completed last, with what it returned
    pdir,                \* data/cache of the app.scraper package
    _scrapers,           \* app.utils ProductScraper._scrapers: class name -> instance
    pkg_scrapers,        \* app.scraper ProductScraper._scrapers
    made,                \* history: every strategy instance ever constructed
    probe                \* the direct call of a method that completed last

vars ==
    <<now, dir, written, use_cache, cache_max_age_days, calls, last, pdir,
      _scrapers, pkg_scrapers, made, probe>>

----------------------------------------------------------------------------
(* Bounds and program constants *)

\* number of distinct products a site can answer with
MaxVersion == 2

\* longest price text generated from PriceChars
MaxPriceLen == 3

\* most img elements a page's image selectors match
MaxImgs == 3

\* CacheManager.__init__(max_age_days = 7)
DefaultMaxAgeDays == 7

\* the instants at which the system is observed: ages 0, 1, 7 and 8 days occur
Instants == {0, DefaultMaxAgeDays, DefaultMaxAgeDays + 1}

\* max_age_days values a caller configures or passes
MaxAgeChoices == {0 - 1, 0, DefaultMaxAgeDays, DefaultMaxAgeDays + 1}

----------------------------------------------------------------------------
(* Python values *)

PyNone == [t |-> "none", s |-> "", items |-> <<>>]
PyStr(s) == [t |-> "str", s |-> s, items |-> <<>>]
PyInt(n) == [t |-> "int", s |-> ToString(n), items |-> <<>>]
PyList(xs) == [t |-> "list", s |-> "", items |-> xs]
PyTuple(xs) == [t |-> "tuple", s |-> "", items |-> xs]
PyDict(kvs) == [t |-> "dict", s |-> "", items |-> kvs]

IsKeyIndex(i) == i % 2 = 1

\* k in d, for a dict d
HasKey(d, k) == \E i \in DOMAIN d.items : IsKeyIndex(i) /\ d.items[i] = k

\* d[k], for a dict d that has the key k
DictGet(d, k) ==
    d.items[(CHOOSE i \in DOMAIN d.items : IsKeyIndex(i) /\ d.items[i] = k) + 1]

----------------------------------------------------------------------------
(* convert_dict, json.dump, json.load *)

\* a convert_dict that does not descend: members become their str()
convert_dict_shallow(obj) ==
    IF obj.t \in {"none", "int", "str"} THEN obj
    ELSE IF obj.t = "dict"
        THEN PyDict([i \in DOMAIN obj.items |->
                    IF IsKeyIndex(i) \/ obj.items[i].t \in {"none", "int", "str"}
                        THEN obj.items[i] ELSE PyStr(obj.items[i].t)])
    ELSE PyList([i \in DOMAIN obj.items |->
                    IF obj.items[i].t \in {"none", "int", "str"}
                        THEN obj.items[i] ELSE PyStr(obj.items[i].t)])

RECURSIVE convert_dict(_)
convert_dict(obj) ==
    IF obj.t = "none" THEN PyNone
    ELSE IF obj.t \in {"int", "str"} THEN obj
    ELSE IF obj.t = "dict"
        THEN PyDict([i \in DOMAIN obj.items |->
                    IF IsKeyIndex(i) THEN obj.items[i] ELSE convert_dict(obj.items[i])])
    ELSE IF obj.t = "list"
        THEN PyList([i \in DOMAIN obj.items |-> convert_dict(obj.items[i])])
    ELSE IF obj.t \in {"set", "tuple"}
        THEN PyList([i \in DOMAIN obj.items |-> convert_dict(obj.items[i])])
    ELSE PyStr(obj.s)

\* json.dump raises TypeError on a key that is no str, int, float, bool or None
\* and on a value of a type it does not know
RECURSIVE JsonSerializable(_)
JsonSerializable(v) ==
    IF v.t \in {"none", "int", "str"} THEN TRUE
    ELSE IF v.t \in {"list", "tuple"}
        THEN \A i \in DOMAIN v.items : JsonSerializable(v.items[i])
    ELSE IF v.t = "dict"
        THEN \A i \in DOMAIN v.items :
                IF IsKeyIndex(i) THEN v.items[i].t \in {"none", "int", "str"}
                ELSE JsonSerializable(v.items[i])
    ELSE FALSE

\* a dict key as json.dump writes it: always a string
JsonKey(k) ==
    [t |-> "string", s |-> (IF k.t = "none" THEN "null" ELSE k.s), items |-> <<>>]

\* the JSON text json.dump writes for a serializable value
RECURSIVE JsonDump(_)
JsonDump(v) ==
    IF v.t = "none" THEN [t |-> "null", s |-> "", items |-> <<>>]
    ELSE IF v.t = "int" THEN [t |-> "number", s |-> v.s, items |-> <<>>]
    ELSE IF v.t = "str" THEN [t |-> "string", s |-> v.s, items |-> <<>>]
    ELSE IF v.t \in {"list", "tuple"}
        THEN [t |-> "array", s |-> "",
              items |-> [i \in DOMAIN v.items |-> JsonDump(v.items[i])]]
    ELSE [t |-> "object", s |-> "",
          items |-> [i \in DOMAIN v.items |->
                      IF IsKeyIndex(i) THEN JsonKey(v.items[i])
                      ELSE JsonDump(v.items[i])]]

\* a file that open('w') truncated and json.dump did not finish: no JSON text
Corrupt == [t |-> "corrupt", s |-> "", items |-> <<>>]

JsonDecodable(text) == text.t # "corrupt"

\* the value json.load builds from a JSON text
RECURSIVE JsonLoad(_)
JsonLoad(text) ==
    IF text.t = "null" THEN PyNone
    ELSE IF text.t = "number" THEN [t |-> "int", s |-> text.s, items |-> <<>>]
    ELSE IF text.t = "string" THEN PyStr(text.s)
    ELSE IF text.t = "array"
        THEN PyList([i \in DOMAIN text.items |-> JsonLoad(text.items[i])])
    ELSE PyDict([i \in DOMAIN text.items |-> JsonLoad(text.items[i])])

----------------------------------------------------------------------------
(* URLs *)

\* a URL string: optional surrounding whitespace, scheme, host labels, path
\* segments
Url(pad, scheme, host, path) ==
    [pad |-> pad, scheme |-> scheme, host |-> host, path |-> path]

RECURSIVE JoinDots(_)
JoinDots(labels) ==
    IF labels = <<>> THEN ""
    ELSE IF Len(labels) = 1 THEN labels[1]
    ELSE labels[1] \o "." \o JoinDots(Tail(labels))

RECURSIVE JoinSlashes(_)
JoinSlashes(segments) ==
    IF segments = <<>> THEN ""
    ELSE "/" \o segments[1] \o JoinSlashes(Tail(segments))

\* the characters of the URL string
UrlText(url) ==
    (IF url.pad THEN " " ELSE "") \o url.scheme \o JoinDots(url.host)
        \o JoinSlashes(url.path) \o (IF url.pad THEN " " ELSE "")

VvicUrl == Url(FALSE, "https://", <<"www", "vvic", "com">>, <<"item", "1">>)
ShopUrl == Url(FALSE, "https://", <<"shop", "example", "com">>, <<"p">>)
EmptyUrl == Url(FALSE, "", <<>>, <<>>)

\* the URLs that get cached
StoreUrls == {VvicUrl, ShopUrl}

----------------------------------------------------------------------------
(* What a call returns *)

RetNone ==
    [kind |-> "none", b |-> FALSE, v |-> PyNone, msg |-> <<>>,
     from_cache |-> FALSE, urls |-> {}]
RetBool(b) == [RetNone EXCEPT !.kind = "bool", !.b = b]
RetValue(v) == [RetNone EXCEPT !.kind = "value", !.v = v]
RetList(urls) == [RetNone EXCEPT !.kind = "list", !.urls = urls]
RetProduct(v, from_cache) ==
    [RetNone EXCEPT !.kind = "product", !.v = v, !.from_cache = from_cache]
Raised(msg) == [RetNone EXCEPT !.kind = "error", !.msg = msg]

\* an optional argument: left out, or given
NoArg == [given |-> FALSE, days |-> 0]
Arg(days) == [given |-> TRUE, days |-> days]

----------------------------------------------------------------------------
(* app/utils/cache_manager.py: CacheManager over the directory d at time t *)

get_cache_key(url) == <<"md5", UrlText(url)>>

get_cache_path(cache_key) == <<cache_key, ".json">>

has_cache_strict(d, t, url, max_age_arg) ==
    LET max_age_days == IF max_age_arg.given THEN max_age_arg.days ELSE DefaultMaxAgeDays
        cache_path == get_cache_path(get_cache_key(url))
    IN  IF cache_path \notin DOMAIN d THEN FALSE
        ELSE IF max_age_days > 0 /\ t - d[cache_path].mtime >= max_age_days THEN FALSE
        ELSE TRUE

has_cache(d, t, url, max_age_arg) ==
    LET max_age_days == IF max_age_arg.given THEN max_age_arg.days ELSE DefaultMaxAgeDays
        cache_path == get_cache_path(get_cache_key(url))
    IN  IF cache_path \notin DOMAIN d THEN FALSE
        ELSE IF max_age_days > 0 /\ t - d[cache_path].mtime > max_age_days THEN FALSE
        ELSE TRUE

\* rio = "fail": open() or read() raises
get_cache(d, t, url, rio) ==
    IF ~has_cache(d, t, url, NoArg) THEN RetNone
    ELSE LET body == d[get_cache_path(get_cache_key(url))].body
         IN  IF rio = "fail" \/ ~JsonDecodable(body) THEN RetNone
             ELSE RetValue(JsonLoad(body))

\* the mapping save_cache serializes
CacheData(t, url, data) ==
    PyDict(<<PyStr("url"), PyStr(UrlText(url)),
             PyStr("created_at"), PyInt(t),
             PyStr("data"), convert_dict(data)>>)

\* wio = "fail_open": makedirs or open('w') raises; wio = "fail_write": the
\* write raises after open('w') has truncated the file
save_cache(d, t, url, data, wio) ==
    LET cache_path == get_cache_path(get_cache_key(url))
        cache_data == CacheData(t, url, data)
        opened == [f \in DOMAIN d \cup {cache_path} |->
                    IF f = cache_path THEN [mtime |-> t, body |-> Corrupt] ELSE d[f]]
    IN  IF wio = "fail_open" THEN [dir |-> d, ret |-> RetBool(FALSE)]
        ELSE IF wio = "fail_write" \/ ~JsonSerializable(cache_data)
            THEN [dir |-> opened, ret |-> RetBool(FALSE)]
        ELSE [dir |-> [opened EXCEPT ![cache_path].body = JsonDump(cache_data)],
              ret |-> RetBool(TRUE)]

Without(d, gone) == [f \in DOMAIN d \ gone |-> d[f]]

\* clear_cache(url): `gone` are the files os.remove removed before one raised
\* (dio = "fail"); with dio = "ok" every targeted file is removed
clear_cache(d, url_arg, dio, gone) ==
    LET targeted ==
            IF url_arg.given /\ UrlText(url_arg.url) # ""
                THEN {get_cache_path(get_cache_key(url_arg.url))} \cap DOMAIN d
                ELSE DOMAIN d
    IN  IF dio = "ok" \/ targeted = {}
            THEN [dir |-> Without(d, targeted), ret |-> RetBool(TRUE)]
            ELSE [dir |-> Without(d, gone \cap targeted), ret |-> RetBool(FALSE)]

NoUrl == [given |-> FALSE, url |-> EmptyUrl]
TheUrl(url) == [given |-> TRUE, url |-> url]

----------------------------------------------------------------------------
(* app/utils/product_scraper.py: ProductScraper *)

\* the requests in flight at a time; an idle slot is taken lowest first
Procs == {1, 2}

\* str(url).strip()
Strip(url) == [url EXCEPT !.pad = FALSE]

\* urlparse(url).netloc.lower(), as host labels
Netloc(url) == IF url.scheme = "" THEN <<>> ELSE url.host

\* a host label cut where a site name starts or ends inside it
Parts(label) ==
    IF label = "amazonia" THEN <<"amazon", "ia">>
    ELSE IF label = "myebay" THEN <<"my", "ebay">>
    ELSE <<label>>

\* str.lower() of a label
Lower(label) ==
    IF label = "AMAZON" THEN "amazon"
    ELSE IF label = "WWW" THEN "www"
    ELSE IF label = "COM" THEN "com"
    ELSE label

\* str(domain).lower()
LowerHost(domain) == [i \in DOMAIN domain |-> Lower(domain[i])]

\* word in domain, for a word without a dot
InDomain(word, domain) ==
    \E i \in DOMAIN domain : \E j \in DOMAIN Parts(domain[i]) : Parts(domain[i])[j] = word

\* the instances of a class among the instances ever constructed
InstancesOf(ever, scraper_class) == {e \in ever : e[1] = scraper_class}

\* _get_or_create_scraper that builds an instance on every call
_get_or_create_scraper_fresh(scrapers, ever, scraper_class) ==
    LET instance == <<scraper_class, Cardinality(InstancesOf(ever, scraper_class)) + 1>>
    IN  [scrapers |-> [k \in DOMAIN scrapers \cup {scraper_class} |->
                        IF k = scraper_class THEN instance ELSE scrapers[k]],
         instance |-> instance, created |-> TRUE]

\* _get_or_create_scraper: scrapers is self._scrapers, ever the instances
\* constructed so far; the instance returned and the registry afterwards
_get_or_create_scraper(scrapers, ever, scraper_class) ==
    IF scraper_class \notin DOMAIN scrapers
        THEN LET instance ==
                    <<scraper_class, Cardinality(InstancesOf(ever, scraper_class)) + 1>>
             IN  [scrapers |-> [k \in DOMAIN scrapers \cup {scraper_class} |->
                                IF k = scraper_class THEN instance ELSE scrapers[k]],
                  instance |-> instance, created |-> TRUE]
        ELSE [scrapers |-> scrapers, instance |-> scrapers[scraper_class],
              created |-> FALSE]

\* a dispatcher that tests the ebay pattern before the amazon pattern
_get_scraper_for_domain_ebay_first(scrapers, ever, domain0) ==
    IF domain0 = <<>> THEN _get_or_create_scraper(scrapers, ever, "GenericScraper")
    ELSE LET domain == LowerHost(domain0)
         IN  IF InDomain("ebay", domain)
                THEN _get_or_create_scraper(scrapers, ever, "EbayScraper")
             ELSE IF InDomain("amazon", domain)
                THEN _get_or_create_scraper(scrapers, ever, "AmazonScraper")
             ELSE IF InDomain("vvic", domain)
                THEN _get_or_create_scraper(scrapers, ever, "VvicScraper")
             ELSE _get_or_create_scraper(scrapers, ever, "GenericScraper")

_get_scraper_for_domain(scrapers, ever, domain0) ==
    IF domain0 = <<>> THEN _get_or_create_scraper(scrapers, ever, "GenericScraper")
    ELSE LET domain == LowerHost(domain0)
         IN  IF InDomain("amazon", domain)
                THEN _get_or_create_scraper(scrapers, ever, "AmazonScraper")
             ELSE IF InDomain("ebay", domain)
                THEN _get_or_create_scraper(scrapers, ever, "EbayScraper")
             ELSE IF InDomain("vvic", domain)
                THEN _get_or_create_scraper(scrapers, ever, "VvicScraper")
             ELSE _get_or_create_scraper(scrapers, ever, "GenericScraper")

\* the instances the ProductScraper of a package has constructed
Ever(pkg) == {<<m[2], m[3]>> : m \in {x \in made : x[1] = pkg}}

\* the history after a call that may have constructed an instance
Made(pkg, got) ==
    IF got.created THEN made \cup {<<pkg, got.instance[1], got.instance[2]>>} ELSE made

\* the ProductInfo a strategy extracts, as model_dump() gives it
Product(i) == PyDict(<<PyStr("title"), PyStr("v" \o ToString(i))>>)
Products == {Product(i) : i \in 1..MaxVersion}

\* VvicScraper._extract_item_id(url) finds an id: "item/" and a segment after it
HasItemId(url) == \E i \in 1..(Len(url.path) - 1) : url.path[i] = "item"

\* the strategy reaches its fetch and the site may answer with a product
CanSucceed(scraper, url) == scraper = "VvicScraper" => HasItemId(url)

\* the messages of the errors a strategy's scrape raises on url: a status that
\* is not 200, and for VVIC a failed envelope or a URL without item id
FetchErrors(scraper, url) ==
    IF scraper = "VvicScraper"
        THEN IF HasItemId(url)
                THEN {<<"VVIC API HTTP 500">>, <<"VVIC API", "not found">>}
                ELSE {<<"no item id in URL">>}
        ELSE {<<"HTTP 500">>}

\* except Exception as e: raise Exception(f"... 상품 정보 수집 실패: {str(e)}")
StrategyRaise(scraper, msg) == <<scraper \o " failed">> \o msg

\* a wrapper that drops the message of the error it wraps
PipelineRaise_NoCause(msg) == <<"pipeline failed">>

\* raise Exception(f"상품 정보 수집 실패: {str(e)}")
PipelineRaise(msg) == <<"pipeline failed">> \o msg

\* True
PyTrue == [t |-> "bool", s |-> "True", items |-> << >>]

\* bool(v)
Truth(v) ==
    CASE v.t = "none" -> FALSE
      [] v.t = "str" -> v.s # ""
      [] v.t = "int" -> v.s # "0"
      [] v.t = "bool" -> v.s = "True"
      [] OTHER -> v.items # << >>

\* d.get(k, default), for a dict d
GetOr(d, k, default) == IF HasKey(d, PyStr(k)) THEN DictGet(d, PyStr(k)) ELSE default

\* k in v, for a string k: a key of a dict, a member of a list; a string v
\* here never contains k
In(k, v) ==
    IF v.t = "dict" THEN HasKey(v, PyStr(k))
    ELSE IF v.t \in {"list", "tuple"} THEN \E i \in DOMAIN v.items : v.items[i] = PyStr(k)
    ELSE FALSE

\* k in v raises TypeError: v is no container
NotContainer(v) == v.t \in {"none", "int"}

\* ProductImage(url=..., alt=...)
ProductImage(url, alt) == PyDict(<<PyStr("url"), url, PyStr("alt"), alt>>)

\* the image _create_product_info_from_cache substitutes for a missing one
PlaceholderImage ==
    ProductImage(PyStr("https://via.placeholder.com/400x400?text=No+Image"),
                 PyStr("No Image Available"))

\* ProductOption(title=..., option_values=...): the class has the fields title
\* and values, so option_values is dropped and values takes its default
ProductOption(title, option_values) ==
    PyDict(<<PyStr("title"), title, PyStr("values"), PyList(<< >>)>>)

\* the ProductImage made of one member of the cached images, none for a
\* member that is neither dict nor str
RECURSIVE cached_images(_)
cached_images(imgs) ==
    IF imgs = << >> THEN << >>
    ELSE LET img_data == Head(imgs)
         IN  (IF img_data.t = "dict"
                 THEN <<ProductImage(GetOr(img_data, "url", PyStr("")),
                                     GetOr(img_data, "alt", PyStr("")))>>
              ELSE IF img_data.t = "str"
                 THEN <<ProductImage(img_data, PyStr("Product Image"))>>
              ELSE << >>) \o cached_images(Tail(imgs))

RECURSIVE cached_options(_)
cached_options(opts) ==
    IF opts = << >> THEN << >>
    ELSE LET opt_data == Head(opts)
             title == GetOr(opt_data, "title", PyStr(""))
             values == GetOr(opt_data, "values", PyList(<< >>))
         IN  (IF opt_data.t = "dict" /\ Truth(title) /\ Truth(values) /\ values.t = "list"
                 THEN <<ProductOption(title, values)>>
                 ELSE << >>) \o cached_options(Tail(opts))

\* what a for loop iterates over: the members of a list, the keys of a dict
\* (a string would be iterated by character; no payload here has a string in
\* the place of a list)
Iterated(v) ==
    IF v.t = "dict" THEN [i \in 1..(Len(v.items) \div 2) |-> v.items[2 * i - 1]]
    ELSE v.items

\* the fields read with product_data.get(name, default), with their defaults
FieldDefaults ==
    << <<"title", PyDict(<<PyStr("original"), PyStr(""), PyStr("translated"), PyStr("")>>)>>,
       <<"brand", PyNone>>,
       <<"url", PyStr("")>>,
       <<"price", PyDict(<<PyStr("original"), PyStr(""), PyStr("value"), PyInt(0),
                           PyStr("krw"), PyNone>>)>>,
       <<"currency", PyStr("CNY")>>,
       <<"description",
         PyDict(<<PyStr("original"), PyStr(""), PyStr("translated"), PyStr("")>>)>>,
       <<"specifications",
         PyDict(<<PyStr("original"), PyDict(<< >>), PyStr("translated"), PyDict(<< >>)>>)>>,
       <<"categories", PyList(<< >>)>> >>

\* datetime.fromtimestamp(created_at).isoformat() and datetime.now().isoformat()
IsoOf(created_at) == PyStr("isoformat of " \o created_at.s)
IsoNow == PyStr("isoformat of now")

\* the body of _create_product_info_from_cache up to the ProductInfo it
\* constructs: raised names the exception an expression raises, "" for none
FromCache(cached_data) ==
    LET product_data ==
            IF In("data", cached_data) /\ cached_data.t = "dict"
                THEN DictGet(cached_data, PyStr("data"))
                ELSE cached_data
        has(name) == In(name, product_data) /\ product_data.t = "dict"
                        /\ Truth(DictGet(product_data, PyStr(name)))
        main_image_data == DictGet(product_data, PyStr("main_image"))
        images_data == DictGet(product_data, PyStr("images"))
        options_data == DictGet(product_data, PyStr("options"))
        raw0 == GetOr(product_data, "raw_data", PyDict(<< >>))
        raw_data == IF Truth(raw0) /\ raw0.t = "dict" THEN raw0 ELSE PyDict(<< >>)
        created0 == GetOr(product_data, "created_at", PyNone)
        raised ==
            IF NotContainer(cached_data) \/ NotContainer(product_data) THEN "TypeError"
            ELSE IF cached_data.t # "dict" /\ In("data", cached_data) THEN "TypeError"
            ELSE IF product_data.t # "dict"
                    /\ \E name \in {"main_image", "images", "options"} :
                            In(name, product_data)
                THEN "TypeError"
            ELSE IF has("main_image") /\ main_image_data.t # "dict" THEN "AttributeError"
            ELSE IF has("images") /\ images_data.t \in {"int"} THEN "TypeError"
            ELSE IF has("options") /\ options_data.t \in {"int"} THEN "TypeError"
            ELSE IF product_data.t # "dict" THEN "AttributeError"
            ELSE ""
    IN  IF raised # ""
            THEN [raised |-> raised, product_data |-> product_data,
                  main_image |-> PyNone, images |-> << >>, options |-> << >>,
                  raw_data |-> PyNone, created_at |-> PyNone, fields |-> << >>]
        ELSE [raised |-> "",
              product_data |-> product_data,
              main_image |->
                  IF has("main_image")
                      THEN ProductImage(GetOr(main_image_data, "url", PyStr("")),
                                        GetOr(main_image_data, "alt", PyStr("")))
                      ELSE PlaceholderImage,
              images |-> IF has("images") THEN cached_images(Iterated(images_data))
                         ELSE << >>,
              options |-> IF has("options") THEN cached_options(Iterated(options_data))
                          ELSE << >>,
              raw_data |->
                  IF HasKey(raw_data, PyStr("from_cache"))
                      THEN PyDict([i \in DOMAIN raw_data.items |->
                                    IF i > 1 /\ IsKeyIndex(i - 1)
                                          /\ raw_data.items[i - 1] = PyStr("from_cache")
                                        THEN PyTrue ELSE raw_data.items[i]])
                      ELSE PyDict(raw_data.items \o <<PyStr("from_cache"), PyTrue>>),
              created_at |-> IF created0.t = "int" THEN IsoOf(created0)
                             ELSE IF ~Truth(created0) THEN IsoNow
                             ELSE created0,
              fields |-> [i \in DOMAIN FieldDefaults |->
                            GetOr(product_data, FieldDefaults[i][1], FieldDefaults[i][2])]]

\* _create_product_info_from_cache as scrape_product calls it: the product of
\* the entry with from_cache set, or the exception, which the handler of
\* scrape_product wraps
_create_product_info_from_cache(cached_data) ==
    LET built == FromCache(cached_data)
    IN  IF built.raised = "" THEN RetProduct(built.product_data, TRUE)
        ELSE Raised(PipelineRaise(<<built.raised>>))

\* bool(cached_data) for what get_cache returned
Truthy(ret) == ret.kind = "value" /\ ret.v.t = "dict" /\ ret.v.items # <<>>

\* an entry the configured age limit accepts and json.load can read
ValidEntry(d, t, url, max_age_days) ==
    LET f == get_cache_path(get_cache_key(url))
    IN  /\ f \in DOMAIN d
        /\ JsonDecodable(d[f].body)
        /\ (max_age_days <= 0 \/ t - d[f].mtime <= max_age_days)

\* a request slot; overlapped: another request was in flight during this one
Idle ==
    [pc |-> "idle", url |-> EmptyUrl, force |-> FALSE, scraper |-> "",
     overlapped |-> FALSE]

\* the record of a completed call: what was called, what it returned, whether
\* it fetched, whether its cache write went through, whether the entry existed
\* before it, the message of the error the strategy raised, whether it was
\* the last to finish of requests that overlapped, and whether it asked
\* has_cache
Done(op, url, ret) ==
    [op |-> op, url |-> UrlText(url), arg |-> NoArg, ret |-> ret,
     force |-> FALSE, fetched |-> FALSE, wio |-> "ok", existed |-> FALSE,
     cause |-> << >>, raced |-> FALSE, lookup |-> FALSE]

\* the other requests are all finished
Alone(p) == \A q \in Procs \ {p} : calls[q].pc = "idle"

\* no method has been called directly yet
NoProbe == [op |-> "none"]

\* scrape_product up to its await: the URL check, the cache lookup, the dispatch
Begin(p, url0, force_refresh) ==
    /\ calls[p].pc = "idle"
    /\ \A q \in Procs : q < p => calls[q].pc # "idle"
    /\ LET url == Strip(url0)
           cached_data == get_cache(dir, now, url, "ok")
           got == _get_scraper_for_domain(_scrapers, Ever("utils"), Netloc(url))
           done(ret) ==
                /\ last' = [Done("scrape", url, ret) EXCEPT
                                !.force = force_refresh,
                                !.lookup = use_cache /\ ~force_refresh]
                /\ UNCHANGED <<calls, _scrapers, made>>
       IN  IF UrlText(url0) = ""
               THEN /\ last' = [Done("scrape", url, Raised(<<"URL empty">>)) EXCEPT
                                    !.force = force_refresh]
                    /\ UNCHANGED <<calls, _scrapers, made>>
           ELSE IF /\ use_cache
                   /\ ~force_refresh
                   /\ has_cache(dir, now, url, Arg(cache_max_age_days))
                   /\ Truthy(cached_data)
               THEN done(_create_product_info_from_cache(cached_data.v))
           ELSE IF Netloc(url) = <<>>
               THEN done(Raised(PipelineRaise(<<"invalid URL">>)))
           ELSE /\ calls' = [q \in Procs |->
                            IF q = p
                                THEN [pc |-> "fetching", url |-> url,
                                      force |-> force_refresh,
                                      scraper |-> got.instance[1],
                                      overlapped |-> ~Alone(p)]
                            ELSE IF calls[q].pc = "fetching"
                                THEN [calls[q] EXCEPT !.overlapped = TRUE]
                            ELSE calls[q]]
                /\ _scrapers' = got.scrapers
                /\ made' = Made("utils", got)
                /\ last' = [Done("await", url, RetNone) EXCEPT
                                !.force = force_refresh,
                                !.lookup = use_cache /\ ~force_refresh]
    /\ UNCHANGED <<now, dir, written, use_cache, cache_max_age_days, pdir,
                   pkg_scrapers, probe>>

\* _save_to_cache that keeps an entry that is already there
_save_to_cache_once(d, t, url, product_info, wio) ==
    IF ~use_cache THEN [dir |-> d, ret |-> RetBool(FALSE)]
    ELSE IF get_cache_path(get_cache_key(url)) \in DOMAIN d
        THEN [dir |-> d, ret |-> RetBool(TRUE)]
    ELSE save_cache(d, t, url, product_info, wio)

\* _save_to_cache without its try/except: a failed write raises
_save_to_cache_unguarded(d, t, url, product_info, wio) ==
    IF ~use_cache THEN [dir |-> d, ret |-> RetBool(FALSE)]
    ELSE LET r == save_cache(d, t, url, product_info, wio)
         IN  IF r.ret.b THEN r
             ELSE [dir |-> r.dir, ret |-> Raised(<<"cache write failed">>)]

\* _save_to_cache: best effort, the result is dropped by the caller
_save_to_cache(d, t, url, product_info, wio) ==
    IF ~use_cache THEN [dir |-> d, ret |-> RetBool(FALSE)]
    ELSE save_cache(d, t, url, product_info, wio)

Remember(w, url, data) ==
    [u \in DOMAIN w \cup {UrlText(url)} |-> IF u = UrlText(url) THEN data ELSE w[u]]

\* scrape_product after its await, the strategy having returned a product
FetchOk(p, product_info, wio) ==
    /\ calls[p].pc = "fetching"
    /\ CanSucceed(calls[p].scraper, calls[p].url)
    /\ LET c == calls[p]
           saved == _save_to_cache(dir, now, c.url, product_info, wio)
       IN  /\ dir' = saved.dir
           /\ written' = IF saved.ret.b THEN Remember(written, c.url, product_info)
                         ELSE written
           /\ last' = [Done("scrape", c.url,
                             IF saved.ret.kind = "error"
                                THEN Raised(PipelineRaise(saved.ret.msg))
                                ELSE RetProduct(product_info, FALSE)) EXCEPT
                            !.force = c.force, !.fetched = TRUE,
                            !.wio = IF saved.ret.b THEN "ok" ELSE "fail",
                            !.existed = ValidEntry(dir, now, c.url, cache_max_age_days),
                            !.raced = c.overlapped /\ Alone(p)]
    /\ calls' = [calls EXCEPT ![p] = Idle]
    /\ UNCHANGED <<now, use_cache, cache_max_age_days, pdir,
                   _scrapers, pkg_scrapers, made, probe>>

\* scrape_product after its await, the strategy having raised
FetchFail(p, msg) ==
    /\ calls[p].pc = "fetching"
    /\ LET c == calls[p]
       IN  last' = [Done("scrape", c.url,
                         Raised(PipelineRaise(StrategyRaise(c.scraper, msg)))) EXCEPT
                        !.force = c.force, !.fetched = TRUE, !.cause = msg,
                        !.raced = c.overlapped /\ Alone(p)]
    /\ calls' = [calls EXCEPT ![p] = Idle]
    /\ UNCHANGED <<now, dir, written, use_cache, cache_max_age_days, pdir,
                   _scrapers, pkg_scrapers, made, probe>>

\* the URLs whose entry the removal of the files `gone` takes away
Forget(w, d, gone) ==
    [u \in {u \in DOMAIN w : \A url \in StoreUrls :
                UrlText(url) = u => get_cache_path(get_cache_key(url)) \notin gone}
        |-> w[u]]

\* ProductScraper.clear_cache(url) -> CacheManager.clear_cache(url)
ClearCache(url_arg, dio, gone) ==
    /\ LET r == clear_cache(dir, url_arg, dio, gone)
       IN  /\ dir' = r.dir
           /\ written' = Forget(written, dir, DOMAIN dir \ DOMAIN r.dir)
           /\ last' = [Done(IF url_arg.given THEN "delete" ELSE "clear",
                            url_arg.url, r.ret) EXCEPT
                            !.wio = IF r.ret.b THEN "ok" ELSE "fail",
                            !.existed =
                                IF url_arg.given
                                    THEN get_cache_path(get_cache_key(url_arg.url))
                                            \in DOMAIN dir
                                    ELSE dir # << >>]
    /\ UNCHANGED <<now, use_cache, cache_max_age_days, calls, pdir,
                   _scrapers, pkg_scrapers, made, probe>>

\* ProductScraper.get_cache_list: the url member of each file json.load reads
get_cache_list(d) ==
    RetList({JsonLoad(d[f].body).items[2].s :
                f \in {g \in DOMAIN d :
                        /\ JsonDecodable(d[g].body)
                        /\ JsonLoad(d[g].body).t = "dict"
                        /\ HasKey(JsonLoad(d[g].body), PyStr("url"))}})

GetCacheList ==
    /\ last' = Done("list", EmptyUrl, get_cache_list(dir))
    /\ UNCHANGED <<now, dir, written, use_cache, cache_max_age_days, calls, pdir,
                   _scrapers, pkg_scrapers, made, probe>>

\* time passes
Tick ==
    /\ \E t \in Instants : t > now /\ now' = t
    /\ last' = Done("tick", EmptyUrl, RetNone)
    /\ UNCHANGED <<dir, written, use_cache, cache_max_age_days, calls, pdir,
                   _scrapers, pkg_scrapers, made, probe>>

----------------------------------------------------------------------------
(* Spec: requests to one ProductScraper of app/utils, one at a time, with  *)
(* cache management and the passing of time in between                     *)

PaddedVvicUrl == [VvicUrl EXCEPT !.pad = TRUE]
VvicShopUrl == Url(FALSE, "https://", <<"www", "vvic", "com">>, <<"shop", "9">>)
BlankUrl == Url(TRUE, "", <<>>, <<>>)
NoHostUrl == Url(FALSE, "", <<"www", "vvic", "com">>, <<"item", "1">>)

RequestUrls ==
    StoreUrls \cup {PaddedVvicUrl, VvicShopUrl, EmptyUrl, BlankUrl, NoHostUrl}

WriteOutcomes == {"ok", "fail_open", "fail_write"}

Init ==
    /\ now = 0
    /\ dir = << >>
    /\ written = << >>
    /\ use_cache \in BOOLEAN
    /\ cache_max_age_days \in {0, DefaultMaxAgeDays, DefaultMaxAgeDays + 1}
    /\ calls = [p \in Procs |-> Idle]
    /\ last = Done("init", EmptyUrl, RetNone)
    /\ pdir = << >>
    /\ _scrapers = << >>
    /\ pkg_scrapers = << >>
    /\ made = {}
    /\ probe = NoProbe

Next ==
    \/ \E url \in RequestUrls, force \in BOOLEAN : Begin(1, url, force)
    \/ \E product \in Products, wio \in WriteOutcomes : FetchOk(1, product, wio)
    \/ \E msg \in FetchErrors(calls[1].scraper, calls[1].url) : FetchFail(1, msg)
    \/ \E url \in StoreUrls \cup {EmptyUrl}, dio \in {"ok", "fail"} :
            ClearCache(TheUrl(url), dio, {})
    \/ \E dio \in {"ok", "fail"}, gone \in SUBSET DOMAIN dir :
            /\ dio = "fail" => gone # DOMAIN dir
            /\ dio = "ok" => gone = DOMAIN dir
            /\ ClearCache(NoUrl, dio, gone)
    \/ GetCacheList
    \/ Tick

Spec == Init /\ [][Next]_vars

----------------------------------------------------------------------------
(* Reading the store *)

PathOf(url) == get_cache_path(get_cache_key(url))

\* the entry json.load reads from the file of url
EntryOf(d, url) == JsonLoad(d[PathOf(url)].body)

\* the file of url holds a complete entry
Readable(d, url) == PathOf(url) \in DOMAIN d /\ JsonDecodable(d[PathOf(url)].body)

\* the file of url holds a complete entry whose data is the payload
Holds(d, url, payload) ==
    /\ Readable(d, url)
    /\ HasKey(EntryOf(d, url), PyStr("data"))
    /\ DictGet(EntryOf(d, url), PyStr("data")) = payload

\* what a call scrape_product(url, force_refresh = False) made now would take
\* from the cache
CacheAnswer(d, t, url) ==
    IF /\ use_cache
       /\ has_cache(d, t, url, Arg(cache_max_age_days))
       /\ Truthy(get_cache(d, t, url, "ok"))
        THEN _create_product_info_from_cache(get_cache(d, t, url, "ok").v)
        ELSE RetNone

IsSuffix(xs, ys) ==
    /\ Len(xs) <= Len(ys)
    /\ \A i \in 1..Len(xs) : xs[i] = ys[Len(ys) - Len(xs) + i]

----------------------------------------------------------------------------
(* C1 *)

\* C1: with caching enabled, a call scrape_product(url, force_refresh = False)
\* made while the store holds an entry for url that is valid under the
\* configured cache_max_age_days returns the product of that entry, tagged
\* from_cache, and does not reach the dispatch and the fetch.
C1_ValidEntryIsServed ==
    \A url \in StoreUrls :
        ( /\ use_cache
          /\ last.op \in {"scrape", "await"}
          /\ last.url = UrlText(url)
          /\ ~last.force
          /\ ~last.fetched
          /\ ValidEntry(dir, now, url, cache_max_age_days) )
        => /\ last.op = "scrape"
           /\ last.ret.kind = "product"
           /\ last.ret.from_cache
           /\ Holds(dir, url, last.ret.v)

----------------------------------------------------------------------------
(* C2 *)

\* C2 as stated: a call with force_refresh = True on a URL the pipeline accepts
\* always fetches, and once it has returned its product the entry of the URL
\* is that product and a later call without refresh reads it.
C2_RefreshAlwaysReplaces ==
    \A url \in StoreUrls :
        ( /\ use_cache
          /\ last.op \in {"scrape", "await"}
          /\ last.url = UrlText(url)
          /\ last.force )
        => /\ last.op = "scrape" => last.fetched
           /\ (last.op = "scrape" /\ last.ret.kind = "product")
                => /\ Holds(dir, url, last.ret.v)
                   /\ CacheAnswer(dir, now, url) = RetProduct(last.ret.v, TRUE)

\* C2, amended: a call with force_refresh = True on a URL the pipeline accepts
\* always fetches, also when a valid entry exists; when the fetch succeeds and
\* the cache write succeeds, the entry of the URL is the new product and a
\* later call without refresh reads it.
C2_RefreshReplacesWhenSaved ==
    \A url \in StoreUrls :
        ( /\ use_cache
          /\ last.op \in {"scrape", "await"}
          /\ last.url = UrlText(url)
          /\ last.force )
        => /\ last.op = "scrape" => last.fetched
           /\ (last.op = "scrape" /\ last.ret.kind = "product" /\ last.wio = "ok")
                => /\ Holds(dir, url, last.ret.v)
                   /\ CacheAnswer(dir, now, url) = RetProduct(last.ret.v, TRUE)

\* a forced refresh that replaced a valid entry
C2_Witness ==
    /\ use_cache
    /\ last.op = "scrape" /\ last.force /\ last.fetched /\ last.existed
    /\ last.ret.kind = "product" /\ last.wio = "ok"
    /\ last.url = UrlText(VvicUrl)
    /\ Holds(dir, VvicUrl, Product(2))

----------------------------------------------------------------------------
(* C3 *)

----------------------------------------------------------------------------
(* C5, C8: stated over Spec *)

\* C5: get_cache(url) returns the stored entry exactly when has_cache reports
\* it valid under the age limit its caller uses (here cache_max_age_days of
\* the ProductScraper) and the file can be read, and returns None otherwise.
C5_GetFollowsCallersLimit ==
    \A url \in StoreUrls :
        LET r == get_cache(dir, now, url, "ok")
        IN  /\ r.kind \in {"value", "none"}
            /\ r.kind = "value"
                <=> ( /\ has_cache(dir, now, url, Arg(cache_max_age_days))
                      /\ Readable(dir, url) )
            /\ r.kind = "value" => r.v = EntryOf(dir, url)

\* the url member of a complete entry file
UrlMember(d, f) == DictGet(JsonLoad(d[f].body), PyStr("url")).s

\* C8: the store holds at most one entry per URL, the entry of a URL is the
\* last payload saved for it, and get_cache_list is exactly the set of URLs
\* saved and not since deleted or cleared.
C8_OneEntryPerUrlListed ==
    /\ \A url \in StoreUrls :
            Cardinality({f \in DOMAIN dir :
                            /\ JsonDecodable(dir[f].body)
                            /\ UrlMember(dir, f) = UrlText(url)}) <= 1
    /\ \A url \in StoreUrls :
            UrlText(url) \in DOMAIN written
                => Holds(dir, url, written[UrlText(url)])
    /\ get_cache_list(dir).urls = DOMAIN written

----------------------------------------------------------------------------
(* SpecCM: direct use of one utils CacheManager *)

\* payloads handed to save_cache: nested mappings and sequences, a mapping
\* keyed by a number, a tuple, and a mapping json.dump cannot write
Nested ==
    PyDict(<<PyStr("k"), PyList(<<PyInt(1), PyDict(<<PyStr("n"), PyStr("a")>>)>>)>>)
IntKeyed == PyDict(<<PyInt(1), PyStr("a")>>)
Pair == PyTuple(<<PyInt(1), PyStr("a")>>)
TupleKeyed == PyDict(<<PyStr("a"), PyInt(1), PyTuple(<<PyStr("x")>>), PyInt(2)>>)

Payloads == {Product(1), Nested, IntKeyed, Pair, TupleKeyed}

CMHas(url, max_age_arg) ==
    /\ last' = [Done("has", url, RetBool(has_cache(dir, now, url, max_age_arg))) EXCEPT
                    !.arg = max_age_arg, !.existed = PathOf(url) \in DOMAIN dir]
    /\ UNCHANGED <<now, dir, written, use_cache, cache_max_age_days, calls, pdir,
                   _scrapers, pkg_scrapers, made, probe>>

CMGet(url, rio) ==
    /\ last' = [Done("get", url, get_cache(dir, now, url, rio)) EXCEPT !.wio = rio]
    /\ UNCHANGED <<now, dir, written, use_cache, cache_max_age_days, calls, pdir,
                   _scrapers, pkg_scrapers, made, probe>>

CMSave(url, data, wio) ==
    /\ LET r == save_cache(dir, now, url, data, wio)
       IN  /\ dir' = r.dir
           /\ written' = IF r.ret.b THEN Remember(written, url, data) ELSE written
           /\ last' = [Done("save", url, r.ret) EXCEPT
                            !.wio = IF r.ret.b THEN "ok" ELSE "fail",
                            !.existed = Readable(dir, url)]
    /\ UNCHANGED <<now, use_cache, cache_max_age_days, calls, pdir,
                   _scrapers, pkg_scrapers, made, probe>>

InitCM ==
    /\ now = 0
    /\ dir = << >>
    /\ written = << >>
    /\ use_cache = TRUE
    /\ cache_max_age_days = DefaultMaxAgeDays
    /\ calls = [p \in Procs |-> Idle]
    /\ last = Done("init", EmptyUrl, RetNone)
    /\ pdir = << >>
    /\ _scrapers = << >>
    /\ pkg_scrapers = << >>
    /\ made = {}
    /\ probe = NoProbe

NextCM ==
    \/ \E url \in StoreUrls, days \in MaxAgeChoices : CMHas(url, Arg(days))
    \/ \E url \in StoreUrls : CMHas(url, NoArg)
    \/ \E url \in StoreUrls, rio \in {"ok", "fail"} : CMGet(url, rio)
    \/ \E url \in StoreUrls, data \in Payloads, wio \in WriteOutcomes :
            CMSave(url, data, wio)
    \/ \E url \in StoreUrls \cup {EmptyUrl}, dio \in {"ok", "fail"} :
            ClearCache(TheUrl(url), dio, {})
    \/ \E dio \in {"ok", "fail"}, gone \in SUBSET DOMAIN dir :
            /\ dio = "fail" => gone # DOMAIN dir
            /\ dio = "ok" => gone = DOMAIN dir
            /\ ClearCache(NoUrl, dio, gone)
    \/ Tick

SpecCM == InitCM /\ [][NextCM]_vars

----------------------------------------------------------------------------
(* C4, C6, C7: stated over SpecCM *)

Age(d, url) == now - d[PathOf(url)].mtime

\* C4: has_cache(url, max_age_days) is true exactly when an entry file for
\* the URL exists and either the limit is zero or negative or the file's age
\* is no more than the limit (the configured default when none is given);
\* the call answers with a boolean and an entry that was there is still there.
C4_HasCacheIffFresh ==
    last.op = "has" =>
        \A url \in StoreUrls :
            last.url = UrlText(url) =>
                LET m == IF last.arg.given THEN last.arg.days ELSE DefaultMaxAgeDays
                IN  /\ last.ret.kind = "bool"
                    /\ last.ret.b
                        <=> ( /\ PathOf(url) \in DOMAIN dir
                              /\ (m <= 0 \/ Age(dir, url) <= m) )
                    /\ last.existed => PathOf(url) \in DOMAIN dir

\* has_cache answered False for an entry past its limit, which stayed on disk
C4_Witness ==
    /\ last.op = "has"
    /\ last.url = UrlText(VvicUrl)
    /\ last.arg = Arg(DefaultMaxAgeDays)
    /\ last.ret = RetBool(FALSE)
    /\ last.existed
    /\ PathOf(VvicUrl) \in DOMAIN dir
    /\ Age(dir, VvicUrl) = DefaultMaxAgeDays + 1

\* C6: a save_cache that fails returns False, and the readable entry the URL
\* had before the call is still readable afterwards with its earlier payload.
C6_FailedWriteKeepsPriorEntry ==
    \A url \in StoreUrls :
        ( /\ last.op = "save"
          /\ last.url = UrlText(url)
          /\ last.wio = "fail"
          /\ last.existed )
            => /\ last.ret = RetBool(FALSE)
               /\ Readable(dir, url)
               /\ UrlText(url) \in DOMAIN written
               /\ Holds(dir, url, written[UrlText(url)])

\* a value json.dump writes and json.load gives back unchanged: None, int,
\* str, lists, and mappings keyed by strings, all the way down
RECURSIVE JsonShaped(_)
JsonShaped(obj) ==
    IF obj.t \in {"none", "int", "str"} THEN TRUE
    ELSE IF obj.t = "list"
        THEN \A i \in DOMAIN obj.items : JsonShaped(obj.items[i])
    ELSE IF obj.t = "dict"
        THEN \A i \in DOMAIN obj.items :
                IF IsKeyIndex(i) THEN obj.items[i].t = "str"
                ELSE JsonShaped(obj.items[i])
    ELSE FALSE

\* a get_cache that read the unexpired entry of the last successful save
ReadBack(url) ==
    /\ last.op = "get"
    /\ last.url = UrlText(url)
    /\ last.wio = "ok"
    /\ UrlText(url) \in DOMAIN written
    /\ Readable(dir, url)
    /\ Age(dir, url) <= DefaultMaxAgeDays

----------------------------------------------------------------------------
(* SpecPkg: app/scraper/cache_manager.py, the CacheManager of the scraper  *)
(* package, over its directory pdir                                        *)

max_age_days == 7

_get_cache_key(url) == <<"md5", UrlText(url)>>

_get_cache_path(url) == <<_get_cache_key(url), ".json">>

_is_cache_valid(d, t, cache_path) ==
    IF cache_path \notin DOMAIN d THEN FALSE
    ELSE t - d[cache_path].mtime < max_age_days

get(d, t, url, rio) ==
    LET cache_path == _get_cache_path(url)
    IN  IF ~_is_cache_valid(d, t, cache_path) THEN RetNone
        ELSE IF rio = "fail" \/ ~JsonDecodable(d[cache_path].body) THEN RetNone
        ELSE RetValue(JsonLoad(d[cache_path].body))

\* set: the data is dumped as it is, into the file open('w') has truncated
set(d, t, url, data, wio) ==
    LET cache_path == _get_cache_path(url)
        opened == [f \in DOMAIN d \cup {cache_path} |->
                    IF f = cache_path THEN [mtime |-> t, body |-> Corrupt] ELSE d[f]]
    IN  IF wio = "fail_open" THEN [dir |-> d, ret |-> RetBool(FALSE)]
        ELSE IF wio = "fail_write" \/ ~JsonSerializable(data)
            THEN [dir |-> opened, ret |-> RetBool(FALSE)]
        ELSE [dir |-> [opened EXCEPT ![cache_path].body = JsonDump(data)],
              ret |-> RetBool(TRUE)]

\* dio = "fail": unlink raises
delete(d, url, dio) ==
    LET cache_path == _get_cache_path(url)
    IN  IF cache_path \in DOMAIN d
            THEN IF dio = "ok"
                    THEN [dir |-> Without(d, {cache_path}), ret |-> RetBool(TRUE)]
                    ELSE [dir |-> d, ret |-> RetBool(FALSE)]
        ELSE [dir |-> d, ret |-> RetBool(FALSE)]

\* `gone` are the files unlinked before one unlink raised (dio = "fail")
clear(d, dio, gone) ==
    IF dio = "ok" \/ d = << >>
        THEN [dir |-> << >>, ret |-> RetBool(TRUE)]
        ELSE [dir |-> Without(d, gone), ret |-> RetBool(FALSE)]

PkgGet(url, rio) ==
    /\ last' = [Done("pkg_get", url, get(pdir, now, url, rio)) EXCEPT !.wio = rio]
    /\ UNCHANGED <<now, dir, written, use_cache, cache_max_age_days, calls, pdir,
                   _scrapers, pkg_scrapers, made, probe>>

PkgSet(url, data, wio) ==
    /\ LET r == set(pdir, now, url, data, wio)
       IN  /\ pdir' = r.dir
           /\ last' = [Done("pkg_set", url, r.ret) EXCEPT
                            !.wio = IF r.ret.b THEN "ok" ELSE "fail",
                            !.existed = _get_cache_path(url) \in DOMAIN pdir]
    /\ UNCHANGED <<now, dir, written, use_cache, cache_max_age_days, calls,
                   _scrapers, pkg_scrapers, made, probe>>

PkgDelete(url, dio) ==
    /\ LET r == delete(pdir, url, dio)
       IN  /\ pdir' = r.dir
           /\ last' = [Done("pkg_delete", url, r.ret) EXCEPT
                            !.wio = dio,
                            !.existed = _get_cache_path(url) \in DOMAIN pdir]
    /\ UNCHANGED <<now, dir, written, use_cache, cache_max_age_days, calls,
                   _scrapers, pkg_scrapers, made, probe>>

PkgClear(dio, gone) ==
    /\ LET r == clear(pdir, dio, gone)
       IN  /\ pdir' = r.dir
           /\ last' = [Done("pkg_clear", EmptyUrl, r.ret) EXCEPT
                            !.wio = dio, !.existed = pdir # << >>]
    /\ UNCHANGED <<now, dir, written, use_cache, cache_max_age_days, calls,
                   _scrapers, pkg_scrapers, made, probe>>

PkgTick ==
    /\ \E t \in Instants : t > now /\ now' = t
    /\ last' = Done("tick", EmptyUrl, RetNone)
    /\ UNCHANGED <<dir, written, use_cache, cache_max_age_days, calls, pdir,
                   _scrapers, pkg_scrapers, made, probe>>

NextPkg ==
    \/ \E url \in StoreUrls, rio \in {"ok", "fail"} : PkgGet(url, rio)
    \/ \E url \in StoreUrls, data \in Payloads, wio \in WriteOutcomes :
            PkgSet(url, data, wio)
    \/ \E url \in StoreUrls, dio \in {"ok", "fail"} : PkgDelete(url, dio)
    \/ \E dio \in {"ok", "fail"}, gone \in SUBSET DOMAIN pdir :
            /\ dio = "fail" => gone # DOMAIN pdir
            /\ dio = "ok" => gone = DOMAIN pdir
            /\ PkgClear(dio, gone)
    \/ PkgTick

SpecPkg == InitCM /\ [][NextPkg]_vars

\* C9: deleting the entry of a URL that has none, and clearing an empty
\* cache, report the same success result as when an entry existed and leave
\* the store as it was.
C9_DeleteMissingSucceeds ==
    /\ (last.op = "pkg_delete" /\ last.wio = "ok")
            => /\ last.ret = RetBool(TRUE)
               /\ \A url \in StoreUrls :
                    last.url = UrlText(url) => _get_cache_path(url) \notin DOMAIN pdir
    /\ (last.op = "pkg_clear" /\ last.wio = "ok")
            => /\ last.ret = RetBool(TRUE)
               /\ pdir = << >>

----------------------------------------------------------------------------
(* SpecRace: two requests for the same URL in flight at once.  The only     *)
(* point where scrape_product yields is its await of the strategy.          *)

RaceUrls == {VvicUrl, PaddedVvicUrl}

NextRace ==
    \/ \E p \in Procs, url \in RaceUrls, force_refresh \in BOOLEAN :
            Begin(p, url, force_refresh)
    \/ \E p \in Procs, product_info \in Products, wio \in WriteOutcomes :
            FetchOk(p, product_info, wio)
    \/ \E p \in Procs : \E msg \in FetchErrors(calls[p].scraper, calls[p].url) :
            FetchFail(p, msg)

SpecRace == InitCM /\ [][NextRace]_vars

\* C10: when the last of two overlapping requests for one URL has finished,
\* the entry of the URL is a complete entry holding the product one of them
\* wrote, and at every moment in between the file, if there is one, is a
\* complete entry.
C10_RaceLeavesCompleteEntry ==
    /\ (last.op = "scrape" /\ last.raced /\ PathOf(VvicUrl) \in DOMAIN dir)
            => \E product_info \in Products : Holds(dir, VvicUrl, product_info)
    /\ (\E p \in Procs : calls[p].pc = "fetching" /\ calls[p].overlapped)
            => (PathOf(VvicUrl) \in DOMAIN dir => Readable(dir, VvicUrl))

----------------------------------------------------------------------------
(* SpecDispatch: strategy selection and the strategy registry of the two   *)
(* ProductScraper classes                                                   *)

\* re.search(word + r'\.', domain): a label ends with the word and a dot follows
SearchDot(word, domain) ==
    \E i \in 1..(Len(domain) - 1) : Parts(domain[i])[Len(Parts(domain[i]))] = word

\* app/scraper ProductScraper._get_or_create_scraper
pkg_get_or_create_scraper(scrapers, ever, scraper_class) ==
    IF scraper_class \notin DOMAIN scrapers
        THEN LET instance ==
                    <<scraper_class, Cardinality(InstancesOf(ever, scraper_class)) + 1>>
             IN  [scrapers |-> [k \in DOMAIN scrapers \cup {scraper_class} |->
                                IF k = scraper_class THEN instance ELSE scrapers[k]],
                  instance |-> instance, created |-> TRUE]
        ELSE [scrapers |-> scrapers, instance |-> scrapers[scraper_class],
              created |-> FALSE]

\* self._domain_patterns, in insertion order
_domain_patterns ==
    << <<"amazon", "AmazonScraper">>, <<"ebay", "EbayScraper">>, <<"vvic", "VvicScraper">> >>

\* app/scraper ProductScraper._get_scraper_for_domain: the loop over the patterns
RECURSIVE pkg_match(_, _)
pkg_match(patterns, domain) ==
    IF patterns = <<>> THEN "GenericScraper"
    ELSE IF SearchDot(Head(patterns)[1], domain) THEN Head(patterns)[2]
    ELSE pkg_match(Tail(patterns), domain)

pkg_get_scraper_for_domain(scrapers, ever, domain0) ==
    IF domain0 = <<>> THEN pkg_get_or_create_scraper(scrapers, ever, "GenericScraper")
    ELSE pkg_get_or_create_scraper(scrapers, ever,
                                   pkg_match(_domain_patterns, LowerHost(domain0)))

\* the hosts selection is tried on
Hosts ==
    { << >>,
      <<"www", "amazon", "com">>, <<"WWW", "AMAZON", "COM">>,
      <<"www", "ebay", "com">>, <<"www", "vvic", "com">>,
      <<"shop", "example", "com">>,
      <<"ebay", "amazon", "com">>, <<"vvic", "ebay", "com">>,
      <<"amazonia", "com">>, <<"myebay", "com">>, <<"vvic">> }

\* a direct call of app/utils ProductScraper._get_scraper_for_domain(domain)
Select(domain) ==
    /\ LET got == _get_scraper_for_domain(_scrapers, Ever("utils"), domain)
       IN  /\ _scrapers' = got.scrapers
           /\ made' = Made("utils", got)
           /\ probe' = [op |-> "select", pkg |-> "utils", domain |-> domain,
                        instance |-> got.instance, created |-> got.created]
    /\ UNCHANGED <<now, dir, written, use_cache, cache_max_age_days, calls, last, pdir,
                   pkg_scrapers>>

\* a direct call of app/scraper ProductScraper._get_scraper_for_domain(domain)
PkgSelect(domain) ==
    /\ LET got == pkg_get_scraper_for_domain(pkg_scrapers, Ever("scraper"), domain)
       IN  /\ pkg_scrapers' = got.scrapers
           /\ made' = Made("scraper", got)
           /\ probe' = [op |-> "select", pkg |-> "scraper", domain |-> domain,
                        instance |-> got.instance, created |-> got.created]
    /\ UNCHANGED <<now, dir, written, use_cache, cache_max_age_days, calls, last, pdir,
                   _scrapers>>

NextDispatch ==
    \/ \E domain \in Hosts : Select(domain)
    \/ \E domain \in Hosts : PkgSelect(domain)
    \/ \E url \in {VvicUrl, ShopUrl, NoHostUrl}, force_refresh \in BOOLEAN :
            Begin(1, url, force_refresh)
    \/ \E msg \in FetchErrors(calls[1].scraper, calls[1].url) : FetchFail(1, msg)

SpecDispatch == InitCM /\ [][NextDispatch]_vars

\* the site patterns in registration order, and whether one matches a host
SiteOrder == <<"amazon", "ebay", "vvic">>
SiteClass(word) ==
    IF word = "amazon" THEN "AmazonScraper"
    ELSE IF word = "ebay" THEN "EbayScraper"
    ELSE "VvicScraper"
PatternMatches(pkg, word, domain) ==
    IF pkg = "utils" THEN InDomain(word, domain) ELSE SearchDot(word, domain)

\* C11: the strategy selected for a host is the one of the first pattern, in
\* the order amazon, ebay, vvic, that matches the lower-cased host, and the
\* generic strategy when no pattern matches; the selection returns a
\* strategy for every host.
C11_FirstMatchingPattern ==
    probe.op = "select" =>
        LET domain == LowerHost(probe.domain)
            hits == {i \in DOMAIN SiteOrder : PatternMatches(probe.pkg, SiteOrder[i], domain)}
        IN  probe.instance[1] =
                IF hits = {} THEN "GenericScraper"
                ELSE SiteClass(SiteOrder[CHOOSE i \in hits : \A j \in hits : i <= j])

\* a host that matches ebay first and amazon second went to the amazon strategy
C11_Witness ==
    /\ probe.op = "select"
    /\ probe.pkg = "utils"
    /\ probe.domain = <<"ebay", "amazon", "com">>
    /\ probe.instance[1] = "AmazonScraper"

\* C12: a scrape_product call on a URL without a host does not raise at the
\* dispatch: it is handed to the generic strategy and waits for its fetch.
C12_EmptyHostGoesToGeneric ==
    ( /\ last.op \in {"scrape", "await"}
      /\ last.url = UrlText(NoHostUrl)
      /\ ~last.fetched )
        => /\ last.op = "await"
           /\ calls[1].scraper = "GenericScraper"

\* C13: a ProductScraper has constructed at most one instance of each
\* strategy class, and a selection returns the instance its registry holds
\* for the class, which is that one instance.
C13_OneInstancePerClass ==
    /\ \A pkg \in {"utils", "scraper"} :
        \A scraper_class \in {"AmazonScraper", "EbayScraper", "VvicScraper", "GenericScraper"} :
            Cardinality(InstancesOf(Ever(pkg), scraper_class)) <= 1
    /\ \A k \in DOMAIN _scrapers : _scrapers[k] \in Ever("utils") /\ _scrapers[k][1] = k
    /\ \A k \in DOMAIN pkg_scrapers :
            pkg_scrapers[k] \in Ever("scraper") /\ pkg_scrapers[k][1] = k
    /\ probe.op = "select"
        => /\ probe.instance \in Ever(probe.pkg)
           /\ probe.instance =
                (IF probe.pkg = "utils" THEN _scrapers ELSE pkg_scrapers)[probe.instance[1]]

\* a second selection of the VVIC strategy returned the instance made by the first
C13_Witness ==
    /\ probe.op = "select"
    /\ probe.pkg = "utils"
    /\ ~probe.created
    /\ probe.instance = <<"VvicScraper", 1>>
    /\ Cardinality(Ever("utils")) >= 2

----------------------------------------------------------------------------
(* C14: stated over Spec *)

\* C14: when the strategy returned a product and saving it to the cache
\* failed, scrape_product returns that product and raises nothing; and a call
\* that finds the entry file of its URL unreadable goes on to the fetch.
C14_CacheFailureDoesNotAbort ==
    /\ (last.op = "scrape" /\ last.fetched /\ last.cause = << >>)
            => /\ last.ret.kind = "product"
               /\ ~last.ret.from_cache
    /\ \A url \in StoreUrls :
        ( /\ last.op \in {"scrape", "await"}
          /\ ~last.fetched
          /\ last.url = UrlText(url)
          /\ PathOf(url) \in DOMAIN dir
          /\ ~Readable(dir, url) )
            => last.op = "await"

\* a fetched product was returned although its cache write failed part-way
C14_Witness ==
    /\ use_cache
    /\ last.op = "scrape" /\ last.fetched /\ last.wio = "fail"
    /\ last.ret = RetProduct(Product(1), FALSE)
    /\ last.url = UrlText(VvicUrl)
    /\ PathOf(VvicUrl) \in DOMAIN dir
    /\ ~Readable(dir, VvicUrl)

----------------------------------------------------------------------------
(* C15: stated over Spec *)

\* C15: a scrape_product call on a URL that is empty, or empty once stripped,
\* ends in an error, and it does so before the cache is asked, a strategy is
\* selected or a fetch is started.
C15_EmptyUrlRejectedFirst ==
    (last.op \in {"scrape", "await"} /\ last.url = "")
        => /\ last.op = "scrape"
           /\ last.ret.kind = "error"
           /\ ~last.fetched
           /\ ~last.lookup

----------------------------------------------------------------------------
(* SpecPrice: the price and currency parsers.  A price text is the sequence *)
(* of its characters.                                                       *)

PriceChars == {"$", "A", "1", "0", ".", ","}

RECURSIVE TextsUpTo(_)
TextsUpTo(n) ==
    IF n = 0 THEN {<< >>}
    ELSE LET shorter == TextsUpTo(n - 1)
         IN  shorter \cup {Append(t, c) : t \in {x \in shorter : Len(x) = n - 1},
                                          c \in PriceChars}

PriceTexts ==
    TextsUpTo(MaxPriceLen) \cup
        { <<"N", "/", "A">>,
          <<"$", "1", ",", "2", "3", "4", ".", "5", "6">>,
          <<"C", "$", "5">>, <<"A", "$", "1", "0">>,
          <<"€", "9", ".", "9", "9">>, <<"¥">>, <<"1", ".", "2", ".", "3">> }

IsDigit(c) == c \in {"0", "1", "2", "3", "4", "5", "6", "7", "8", "9"}

DigitValue(c) ==
    CASE c = "0" -> 0 [] c = "1" -> 1 [] c = "2" -> 2 [] c = "3" -> 3 [] c = "4" -> 4
      [] c = "5" -> 5 [] c = "6" -> 6 [] c = "7" -> 7 [] c = "8" -> 8 [] OTHER -> 9

\* the characters of cs that satisfy Keep(_), in order
RECURSIVE Filter(_, _)
Filter(cs, keep) ==
    IF cs = << >> THEN << >>
    ELSE (IF Head(cs) \in keep THEN <<Head(cs)>> ELSE << >>) \o Filter(Tail(cs), keep)

DigitsAndDot == {"0", "1", "2", "3", "4", "5", "6", "7", "8", "9", "."}

RECURSIVE Number(_)
Number(ds) ==
    IF ds = << >> THEN 0
    ELSE Number(SubSeq(ds, 1, Len(ds) - 1)) * 10 + DigitValue(ds[Len(ds)])

RECURSIVE TrimZeros(_)
TrimZeros(ds) ==
    IF ds # << >> /\ ds[Len(ds)] = "0" THEN TrimZeros(SubSeq(ds, 1, Len(ds) - 1))
    ELSE ds

\* 0.0
Zero == [whole |-> 0, frac |-> << >>]

\* float(price_str) parses: digits with at most one dot, and a digit at all
FloatParses(cs) ==
    /\ \E i \in DOMAIN cs : IsDigit(cs[i])
    /\ Cardinality({i \in DOMAIN cs : cs[i] = "."}) <= 1
    /\ \A i \in DOMAIN cs : cs[i] \in DigitsAndDot

\* float(price_str), for a text that parses: whole part and fraction digits
Float(cs) ==
    LET dots == {i \in DOMAIN cs : cs[i] = "."}
        dot == IF dots = {} THEN Len(cs) + 1 ELSE CHOOSE i \in dots : TRUE
    IN  [whole |-> Number(SubSeq(cs, 1, dot - 1)),
         frac |-> TrimZeros(SubSeq(cs, dot + 1, Len(cs)))]

\* what a price parser hands back: the raw text and the value
Price(text, value) == [text |-> text, value |-> value]

\* re.search(r'[\d,]+\.?\d*', text).group(): from the first digit or comma,
\* the run of digits and commas, a dot if one follows, the digits after it
RECURSIVE Run(_, _, _)
Run(cs, i, keep) ==
    IF i <= Len(cs) /\ cs[i] \in keep THEN Run(cs, i + 1, keep) ELSE i

PriceMatch(cs) ==
    LET DigitsComma == (DigitsAndDot \ {"."}) \cup {","}
        starts == {i \in DOMAIN cs : cs[i] \in DigitsComma}
    IN  IF starts = {} THEN << >>
        ELSE LET first == CHOOSE i \in starts : \A j \in starts : i <= j
                 afterRun == Run(cs, first, DigitsComma)
                 afterDot == IF afterRun <= Len(cs) /\ cs[afterRun] = "."
                                THEN afterRun + 1 ELSE afterRun
                 stop == Run(cs, afterDot, DigitsAndDot \ {"."})
             IN  SubSeq(cs, first, stop - 1)

NA == <<"N", "/", "A">>

\* app/scraper BaseScraper._extract_price
base_extract_price(price_text) ==
    IF price_text = << >> \/ price_text = NA THEN Price(price_text, Zero)
    ELSE LET price_match == PriceMatch(price_text)
             price_str == Filter(price_match, DigitsAndDot)
         IN  IF price_match = << >> THEN Price(price_text, Zero)
             ELSE IF FloatParses(price_str) THEN Price(price_text, Float(price_str))
             ELSE Price(price_text, Zero)

\* app/scraper VvicScraper._extract_price
vvic_extract_price(price_text) ==
    LET price_str == Filter(price_text, DigitsAndDot)
    IN  IF price_str = << >> THEN Price(<<"0">>, Zero)
        ELSE IF FloatParses(price_str) THEN Price(price_text, Float(price_str))
        ELSE Price(<<"0">>, Zero)

\* app/utils BaseScraper._extract_price and VvicScraper._extract_price return
\* the value alone; the caller keeps the text it passed
utils_extract_price(price_text) ==
    LET price_str == Filter(price_text, DigitsAndDot)
    IN  IF price_text = << >> \/ price_text = NA THEN Price(price_text, Zero)
        ELSE IF price_str = << >> THEN Price(price_text, Zero)
        ELSE IF FloatParses(price_str) THEN Price(price_text, Float(price_str))
        ELSE Price(price_text, Zero)

\* symbol in price_text
Occurs(symbol, text) ==
    \E i \in 1..(Len(text) - Len(symbol) + 1) : SubSeq(text, i, i + Len(symbol) - 1) = symbol

\* currency_map, in insertion order ("baht" stands for the one-character
\* baht sign)
currency_map ==
    << << <<"$">>, "USD">>, << <<"£">>, "GBP">>, << <<"€">>, "EUR">>,
       << <<"¥">>, "JPY">>, << <<"₩">>, "KRW">>, << <<"₹">>, "INR">>,
       << <<"₽">>, "RUB">>, << <<"baht">>, "THB">>,
       << <<"A", "$">>, "AUD">>, << <<"C", "$">>, "CAD">> >>

\* _extract_currency: the loop over currency_map
RECURSIVE first_symbol(_, _)
first_symbol(entries, price_text) ==
    IF entries = << >> THEN "USD"
    ELSE IF Occurs(Head(entries)[1], price_text) THEN Head(entries)[2]
    ELSE first_symbol(Tail(entries), price_text)

_extract_currency(price_text) == first_symbol(currency_map, price_text)

Parsers == {"scraper.BaseScraper", "scraper.VvicScraper", "utils.BaseScraper"}

\* a text handed to the parsers
GivenText(price_text) == [op |-> "text", price_text |-> price_text]

ExtractPrice(parser) ==
    /\ probe.op = "text"
    /\ LET price_text == probe.price_text IN
       probe' = [op |-> "price", parser |-> parser, price_text |-> price_text,
                 ret |-> IF parser = "scraper.BaseScraper" THEN base_extract_price(price_text)
                         ELSE IF parser = "scraper.VvicScraper"
                            THEN vvic_extract_price(price_text)
                         ELSE utils_extract_price(price_text)]
    /\ UNCHANGED <<now, dir, written, use_cache, cache_max_age_days, calls, last, pdir,
                   _scrapers, pkg_scrapers, made>>

ExtractCurrency ==
    /\ probe.op = "text"
    /\ probe' = [op |-> "currency", price_text |-> probe.price_text,
                 ret |-> _extract_currency(probe.price_text)]
    /\ UNCHANGED <<now, dir, written, use_cache, cache_max_age_days, calls, last, pdir,
                   _scrapers, pkg_scrapers, made>>

InitPrice ==
    /\ now = 0
    /\ dir = << >>
    /\ written = << >>
    /\ use_cache = TRUE
    /\ cache_max_age_days = DefaultMaxAgeDays
    /\ calls = [p \in Procs |-> Idle]
    /\ last = Done("init", EmptyUrl, RetNone)
    /\ pdir = << >>
    /\ _scrapers = << >>
    /\ pkg_scrapers = << >>
    /\ made = {}
    /\ probe \in {GivenText(price_text) : price_text \in PriceTexts}

NextPrice ==
    \/ \E parser \in Parsers : ExtractPrice(parser)
    \/ ExtractCurrency

SpecPrice == InitPrice /\ [][NextPrice]_vars

\* C19: for a non-empty price text without a digit, every price parser returns the
\* value 0.0 and the text it was given, unchanged.
C19_NoDigitGivesZeroAndKeepsText ==
    (/\ probe.op = "price"
     /\ probe.price_text # << >>
     /\ \A i \in DOMAIN probe.price_text : ~IsDigit(probe.price_text[i]))
        => /\ probe.ret.value = Zero
           /\ probe.ret.text = probe.price_text

\* C20: the currency of a text that contains A$ is AUD, of one that contains
\* C$ is CAD, of one that contains $ and neither of them is USD, and of a
\* text without a known symbol is USD.
C20_CurrencyOfSymbol ==
    probe.op = "currency" =>
        LET text == probe.price_text
        IN  /\ Occurs(<<"A", "$">>, text) /\ ~Occurs(<<"C", "$">>, text) => probe.ret = "AUD"
            /\ Occurs(<<"C", "$">>, text) /\ ~Occurs(<<"A", "$">>, text) => probe.ret = "CAD"
            /\ (\A i \in DOMAIN currency_map : ~Occurs(currency_map[i][1], text))
                    => probe.ret = "USD"
            /\ text = <<"$", "1", ",", "2", "3", "4", ".", "5", "6">> => probe.ret = "USD"

----------------------------------------------------------------------------
(* SpecRebuild: _create_product_info_from_cache on cached payloads of the   *)
(* current shape, with members left out, and of the shapes the code tells   *)
(* apart                                                                    *)

\* a member that is left out of the payload
Absent == [t |-> "absent", s |-> "", items |-> << >>]

Member(name, v) == IF v = Absent THEN << >> ELSE <<PyStr(name), v>>

AnImage == ProductImage(PyStr("https://img/1.jpg"), PyStr("front"))
AnOption ==
    PyDict(<<PyStr("title"), PyStr("size"), PyStr("values"), PyList(<<PyStr("M")>>)>>)

MainImageShapes ==
    {Absent, PyNone, PyDict(<< >>), AnImage,
     PyDict(<<PyStr("url"), PyStr("https://img/1.jpg")>>),
     PyStr("https://img/1.jpg")}

ImagesShapes ==
    {Absent, PyNone, PyList(<< >>), PyList(<<AnImage>>),
     PyList(<<PyStr("https://img/2.jpg"), PyInt(1)>>)}

OptionsShapes ==
    {Absent, PyList(<<AnOption>>),
     PyList(<<PyDict(<<PyStr("title"), PyStr("size")>>), PyStr("M")>>)}

RawDataShapes == {Absent, PyNone, PyStr("raw"), PyDict(<<PyStr("from_cache"), PyNone>>)}

CreatedAtShapes == {Absent, PyInt(0), PyStr("2024-01-01T00:00:00")}

TitleShapes ==
    {Absent, PyDict(<<PyStr("original"), PyStr("v1"), PyStr("translated"), PyStr("")>>)}

\* the payload as saved, and as an API response that holds it under 'data'
Wrappings == {"product", "response"}

CachedPayloads ==
    { LET product_data ==
              PyDict(Member("title", title) \o Member("main_image", main_image)
                     \o Member("images", images) \o Member("options", options)
                     \o Member("raw_data", raw_data) \o Member("created_at", created_at))
      IN  IF wrapping = "response"
              THEN PyDict(<<PyStr("code"), PyInt(200), PyStr("data"), product_data>>)
              ELSE product_data :
        title \in TitleShapes, main_image \in MainImageShapes, images \in ImagesShapes,
        options \in OptionsShapes, raw_data \in RawDataShapes,
        created_at \in CreatedAtShapes, wrapping \in Wrappings }

GivenPayload(cached_data) == [op |-> "cached", cached_data |-> cached_data]

\* a direct call of _create_product_info_from_cache(cached_data)
Rebuild ==
    /\ probe.op = "cached"
    /\ probe' = [op |-> "rebuild", cached_data |-> probe.cached_data,
                 built |-> FromCache(probe.cached_data)]
    /\ UNCHANGED <<now, dir, written, use_cache, cache_max_age_days, calls, last, pdir,
                   _scrapers, pkg_scrapers, made>>

InitRebuild ==
    /\ now = 0
    /\ dir = << >>
    /\ written = << >>
    /\ use_cache = TRUE
    /\ cache_max_age_days = DefaultMaxAgeDays
    /\ calls = [p \in Procs |-> Idle]
    /\ last = Done("init", EmptyUrl, RetNone)
    /\ pdir = << >>
    /\ _scrapers = << >>
    /\ pkg_scrapers = << >>
    /\ made = {}
    /\ probe \in {GivenPayload(cached_data) : cached_data \in CachedPayloads}

NextRebuild == Rebuild

SpecRebuild == InitRebuild /\ [][NextRebuild]_vars

\* the product data of a payload of CachedPayloads
PayloadData(cached_data) ==
    IF HasKey(cached_data, PyStr("data")) THEN DictGet(cached_data, PyStr("data"))
    ELSE cached_data

\* C18: rebuilding a product from a cached payload does not raise; a member
\* the payload lacks takes its default, and a payload without main image (none,
\* or an empty one) yields the placeholder image.
C18_RebuildNeverRaises ==
    probe.op = "rebuild" =>
        LET product_data == PayloadData(probe.cached_data)
        IN  /\ probe.built.raised = ""
            /\ \A i \in DOMAIN FieldDefaults :
                    ~HasKey(product_data, PyStr(FieldDefaults[i][1]))
                        => probe.built.fields[i] = FieldDefaults[i][2]
            /\ (~HasKey(product_data, PyStr("main_image"))
                    \/ ~Truth(DictGet(product_data, PyStr("main_image"))))
                    => probe.built.main_image = PlaceholderImage
            /\ ~HasKey(product_data, PyStr("images")) => probe.built.images = << >>
            /\ ~HasKey(product_data, PyStr("options")) => probe.built.options = << >>

----------------------------------------------------------------------------
(* SpecVvic: the VVIC strategies of app/scraper and app/utils, called with  *)
(* the site's answer as input                                               *)

\* s.split(',')
Split(s) ==
    IF s = "//cdn/a.jpg,b.jpg" THEN <<"//cdn/a.jpg", "b.jpg">>
    ELSE IF s = "red,blue" THEN <<"red", "blue">>
    ELSE IF s = "b.jpg,b.jpg" THEN <<"b.jpg", "b.jpg">>
    ELSE IF s = ",b.jpg" THEN <<"", "b.jpg">>
    ELSE IF s = "//cdn/a.jpg,https://cdn/a.jpg" THEN <<"//cdn/a.jpg", "https://cdn/a.jpg">>
    ELSE <<s>>

\* f"https:{img_url}" if img_url.startswith('//')
WithScheme(img_url) == IF img_url = "//cdn/a.jpg" THEN "https://cdn/a.jpg" ELSE img_url

\* BeautifulSoup(html, 'lxml').get_text(separator='\n', strip=True)
GetText(html) == IF html = "<p>soft</p>" THEN "soft" ELSE html

\* the characters of a price string
Chars(s) ==
    IF s = "12.50" THEN <<"1", "2", ".", "5", "0">>
    ELSE IF s = "N/A" THEN NA
    ELSE IF s = "0" THEN <<"0">>
    ELSE << >>

\* what an extractor hands back: the exception it raised ("" for none) and
\* its value
Got(v) == [raised |-> "", v |-> v]
Throws(exception) == [raised |-> exception, v |-> << >>]

\* _extract_item_id(url): the segment after "item"
_extract_item_id(url) ==
    LET at == {i \in 1..(Len(url.path) - 1) : url.path[i] = "item"}
    IN  IF at = {} THEN ""
        ELSE url.path[(CHOOSE i \in at : \A j \in at : i <= j) + 1]

\* f"https://www.vvic.com/apif/item/{item_id}/detail?lang=ko"
ApiUrl(item_id) ==
    Url(FALSE, "https://", <<"www", "vvic", "com">>,
        <<"apif", "item", item_id, "detail?lang=ko">>)

\* the urls of a list of image dicts or of image urls, in order
RECURSIVE image_urls(_, _)
image_urls(img_urls, images) ==
    IF img_urls = << >> THEN images
    ELSE image_urls(Tail(img_urls),
                    IF Head(img_urls) # "" THEN Append(images, WithScheme(Head(img_urls)))
                    ELSE images)

\* the loop over color_pics
RECURSIVE color_images(_, _)
color_images(pics, images) ==
    IF pics = << >> THEN Got(images)
    ELSE LET img_url == Head(pics)
         IN  IF ~Truth(img_url) \/ (img_url.t = "str" /\ \E i \in DOMAIN images :
                                                            images[i] = img_url.s)
                 THEN color_images(Tail(pics), images)
             ELSE IF img_url.t # "str" THEN Throws("AttributeError")
             ELSE color_images(Tail(pics), Append(images, WithScheme(img_url.s)))

\* app/scraper _extract_images: the image dicts, in order; is_main is i == 0
\* of enumerate(img_urls) and False for a colour picture
RECURSIVE main_images(_, _, _)
main_images(img_urls, i, images) ==
    IF img_urls = << >> THEN images
    ELSE main_images(Tail(img_urls), i + 1,
                     IF Head(img_urls) # ""
                         THEN Append(images, [url |-> WithScheme(Head(img_urls)),
                                              is_main |-> i = 0])
                         ELSE images)

pkg_extract_images(product_data) ==
    LET imgs == GetOr(product_data, "imgs", PyNone)
        color_pics == GetOr(product_data, "color_pics", PyNone)
        main == IF Truth(imgs) THEN main_images(Split(imgs.s), 0, << >>) ELSE << >>
        urls == [i \in DOMAIN main |-> main[i].url]
        all == color_images(Iterated(color_pics), urls)
    IN  IF Truth(imgs) /\ imgs.t # "str" THEN Throws("AttributeError")
        ELSE IF ~Truth(color_pics) THEN Got(main)
        ELSE IF color_pics.t \in {"int", "bool"} THEN Throws("TypeError")
        ELSE IF all.raised # "" THEN all
        ELSE Got([i \in DOMAIN all.v |->
                    IF i <= Len(main) THEN main[i]
                    ELSE [url |-> all.v[i], is_main |-> FALSE]])

\* app/utils _extract_images of the VVIC strategy: the urls, in order
_extract_images(product_data) ==
    LET imgs == GetOr(product_data, "imgs", PyNone)
        color_pics == GetOr(product_data, "color_pics", PyNone)
        main == IF Truth(imgs) THEN image_urls(Split(imgs.s), << >>) ELSE << >>
    IN  IF Truth(imgs) /\ imgs.t # "str" THEN Throws("AttributeError")
        ELSE IF ~Truth(color_pics) THEN Got(main)
        ELSE IF color_pics.t \in {"int", "bool"} THEN Throws("TypeError")
        ELSE color_images(Iterated(color_pics), main)

\* app/scraper _extract_options: color and size, split at the commas
pkg_extract_options(product_data) ==
    LET color == GetOr(product_data, "color", PyNone)
        size == GetOr(product_data, "size", PyNone)
    IN  IF (Truth(color) /\ color.t # "str") \/ (Truth(size) /\ size.t # "str")
            THEN Throws("AttributeError")
        ELSE Got((IF Truth(color) THEN <<Split(color.s)>> ELSE << >>)
                 \o (IF Truth(size) THEN <<Split(size.s)>> ELSE << >>))

\* the two optional parts of item_desc, as both strategies read them
item_desc_parts(item_desc, tags_title) ==
    LET desc == GetOr(item_desc, "desc", PyNone)
        tags_desc == GetOr(item_desc, "tags_desc", PyNone)
    IN  IF NotContainer(item_desc) \/ item_desc.t = "bool" THEN Throws("TypeError")
        ELSE IF item_desc.t # "dict"
            THEN IF In("desc", item_desc) \/ In("tags_desc", item_desc)
                    THEN Throws("TypeError") ELSE Got(<< >>)
        ELSE IF (Truth(desc) /\ desc.t # "str") \/ (Truth(tags_desc) /\ tags_desc.t # "str")
            THEN Throws("TypeError")
        ELSE Got((IF Truth(desc) /\ GetText(desc.s) # "" THEN <<GetText(desc.s)>> ELSE << >>)
                 \o (IF Truth(tags_desc) /\ GetText(tags_desc.s) # ""
                        THEN <<tags_title \o GetText(tags_desc.s)>> ELSE << >>))

\* app/scraper _extract_description
pkg_extract_description(product_data) ==
    LET parts == IF HasKey(product_data, PyStr("item_desc"))
                    THEN item_desc_parts(DictGet(product_data, PyStr("item_desc")), "")
                    ELSE Got(<< >>)
    IN  IF parts.raised # "" THEN parts
        ELSE Got(parts.v \o (IF HasKey(product_data, PyStr("deliveryTimeTips"))
                                THEN <<"delivery">> ELSE << >>))

\* app/scraper _extract_brand ("brand name" stands for the attribute key the
\* source looks up)
_extract_brand(product_data) ==
    LET attrs == GetOr(product_data, "attrs_json", PyNone)
        brand == GetOr(product_data, "brand", PyNone)
    IN  IF Truth(attrs) /\ (NotContainer(attrs) \/ attrs.t = "bool") THEN Throws("TypeError")
        ELSE IF Truth(attrs) /\ In("brand name", attrs)
            THEN IF attrs.t = "dict" THEN Got(DictGet(attrs, PyStr("brand name")))
                 ELSE Throws("TypeError")
        ELSE IF Truth(brand) THEN Got(brand)
        ELSE Got(PyNone)

\* [item['name'] for item in product_data.get('breadCrumbs', [])]
RECURSIVE names_of(_)
names_of(items) ==
    IF items = << >> THEN Got(<< >>)
    ELSE LET item == Head(items)
             rest == names_of(Tail(items))
         IN  IF item.t # "dict" THEN Throws("TypeError")
             ELSE IF ~HasKey(item, PyStr("name")) THEN Throws("KeyError")
             ELSE IF rest.raised # "" THEN rest
             ELSE Got(<<DictGet(item, PyStr("name"))>> \o rest.v)

pkg_categories(product_data) ==
    LET breadCrumbs == GetOr(product_data, "breadCrumbs", PyList(<< >>))
    IN  IF breadCrumbs.t \in {"none", "int", "bool"} THEN Throws("TypeError")
        ELSE names_of(Iterated(breadCrumbs))

\* the first exception among the steps, in the order they run
RECURSIVE FirstRaised(_)
FirstRaised(steps) ==
    IF steps = << >> THEN ""
    ELSE IF Head(steps).raised # "" THEN Head(steps).raised
    ELSE FirstRaised(Tail(steps))

\* the text _extract_price of app/scraper VvicScraper returns for price_text
PriceTextOf(price_text) ==
    IF vvic_extract_price(Chars(price_text.s)).text = Chars(price_text.s)
        THEN price_text ELSE PyStr("0")

\* app/scraper VvicScraper.scrape from product_data = json_data['data'] on
pkg_product(json_data) ==
    LET product_data == DictGet(json_data, PyStr("data"))
        price_text == GetOr(product_data, "price", PyStr("0"))
        brand == _extract_brand(product_data)
        images == pkg_extract_images(product_data)
        description == pkg_extract_description(product_data)
        options == pkg_extract_options(product_data)
        categories == pkg_categories(product_data)
        raised == FirstRaised(<<brand, images, description, options, categories>>)
    IN  IF json_data.t # "dict" THEN Raised(<<"TypeError">>)
        ELSE IF ~HasKey(json_data, PyStr("data")) THEN Raised(<<"KeyError">>)
        ELSE IF product_data.t # "dict" THEN Raised(<<"AttributeError">>)
        ELSE IF raised # "" THEN Raised(<<raised>>)
        ELSE RetProduct(
                PyDict(<<PyStr("title_original"), GetOr(product_data, "title", PyStr("")),
                         PyStr("price_original"), PriceTextOf(price_text),
                         PyStr("brand"), brand.v,
                         PyStr("specifications_original"),
                             GetOr(product_data, "attrs_json", PyDict(<< >>)),
                         PyStr("categories_original"), PyList(categories.v)>>),
                FALSE)

\* an envelope check that looks at the code alone
envelope_ok_code_only(json_data) == GetOr(json_data, "code", PyNone) = PyInt(200)

\* json_data.get('code') != 200 or 'data' not in json_data is false
envelope_ok(json_data) ==
    /\ GetOr(json_data, "code", PyNone) = PyInt(200)
    /\ HasKey(json_data, PyStr("data"))

\* str(json_data.get('msg', '알 수 없는 오류'))
EnvelopeMsg(json_data) ==
    LET msg == GetOr(json_data, "msg", PyStr("unknown error"))
    IN  IF msg.t = "none" THEN "None" ELSE msg.s

\* BaseScraper._is_cache_valid of app/scraper: age.days <= cache_max_age_days
base_is_cache_valid(d, t, cache_path) ==
    cache_path \in DOMAIN d /\ t - d[cache_path].mtime <= cache_max_age_days

\* BaseScraper._get_from_cache of app/scraper
_get_from_cache(d, t, url) ==
    LET cache_path == _get_cache_path(url)
    IN  IF ~use_cache THEN PyNone
        ELSE IF base_is_cache_valid(d, t, cache_path) /\ JsonDecodable(d[cache_path].body)
            THEN JsonLoad(d[cache_path].body)
        ELSE PyNone

\* BaseScraper._save_to_cache of app/scraper: the directory afterwards
base_save_to_cache(d, t, url, data, wio) ==
    LET cache_path == _get_cache_path(url)
        opened == [f \in DOMAIN d \cup {cache_path} |->
                    IF f = cache_path THEN [mtime |-> t, body |-> Corrupt] ELSE d[f]]
    IN  IF ~use_cache \/ wio = "fail_open" THEN d
        ELSE IF wio = "fail_write" \/ ~JsonSerializable(data) THEN opened
        ELSE [opened EXCEPT ![cache_path].body = JsonDump(data)]

\* app/scraper VvicScraper.scrape(url, force_refresh), the site answering
\* with status and json_data: the directory afterwards, whether the API was
\* asked, whether the answer came from the cache, and what the call returns
pkg_vvic_scrape(url, force_refresh, status, json_data, wio) ==
    LET item_id == _extract_item_id(url)
        api_url == ApiUrl(item_id)
        cached_data == IF force_refresh THEN PyNone ELSE _get_from_cache(pdir, now, api_url)
        fetched == item_id # "" /\ ~Truth(cached_data)
        saved == fetched /\ status = 200 /\ json_data.t = "dict" /\ envelope_ok(json_data)
        ret == IF item_id = "" THEN Raised(<<"no item id in URL">>)
               ELSE IF ~fetched THEN pkg_product(cached_data)
               ELSE IF status # 200 THEN Raised(<<"VVIC API HTTP 500">>)
               ELSE IF json_data.t # "dict" THEN Raised(<<"AttributeError">>)
               ELSE IF ~envelope_ok(json_data)
                   THEN Raised(<<"VVIC API", EnvelopeMsg(json_data)>>)
               ELSE pkg_product(json_data)
    IN  [pdir |-> IF saved THEN base_save_to_cache(pdir, now, api_url, json_data, wio)
                  ELSE pdir,
         fetched |-> fetched, cached |-> item_id # "" /\ ~fetched, ret |-> ret]

\* a direct call of app/scraper VvicScraper.scrape
PkgVvicScrape(url, force_refresh, status, json_data, wio) ==
    LET out == pkg_vvic_scrape(url, force_refresh, status, json_data, wio)
    IN  /\ pdir' = out.pdir
        /\ probe' = [op |-> "vvic", pkg |-> "scraper", url |-> UrlText(url),
                     status |-> status, json_data |-> json_data,
                     fetched |-> out.fetched, ret |-> out.ret, wrote |-> pdir' # pdir]
        /\ UNCHANGED <<now, dir, written, use_cache, cache_max_age_days, calls, last,
                       _scrapers, pkg_scrapers, made>>

\* specs.update(attrs): a dict, or a sequence of pairs
RECURSIVE update_raises(_)
update_raises(items) ==
    IF items = << >> THEN ""
    ELSE LET item == Head(items)
         IN  IF item.t \in {"none", "int", "bool"} THEN "TypeError"
             ELSE IF item.t = "str" /\ Len(item.s) # 2 THEN "ValueError"
             ELSE IF item.t \in {"list", "tuple"} /\ Len(item.items) # 2 THEN "ValueError"
             ELSE IF item.t = "dict" /\ Len(item.items) # 4 THEN "ValueError"
             ELSE update_raises(Tail(items))

\* app/utils _extract_specs: attrs_json, then art_no and deliveryTime
_extract_specs(product_data) ==
    LET attrs == GetOr(product_data, "attrs_json", PyNone)
        more(field, field_name) ==
            IF Truth(GetOr(product_data, field, PyNone))
                THEN <<PyStr(field_name), DictGet(product_data, PyStr(field))>>
                ELSE << >>
        extra == more("art_no", "product code") \o more("deliveryTime", "delivery time")
    IN  IF ~Truth(attrs) THEN Got(PyDict(extra))
        ELSE IF attrs.t = "dict" THEN Got(PyDict(attrs.items \o extra))
        ELSE IF attrs.t \in {"int", "bool"} THEN Throws("TypeError")
        ELSE IF attrs.t = "str" THEN Throws("ValueError")
        ELSE IF update_raises(attrs.items) # "" THEN Throws(update_raises(attrs.items))
        ELSE Got(PyDict(extra))

\* app/utils _extract_description
utils_extract_description(product_data) ==
    LET desc == GetOr(product_data, "desc", PyNone)
        item_desc == GetOr(product_data, "item_desc", PyNone)
        attrs == GetOr(product_data, "attrs_json", PyNone)
        parts == IF Truth(item_desc) THEN item_desc_parts(item_desc, "tags: ")
                 ELSE Got(<< >>)
    IN  IF parts.raised # "" THEN parts
        ELSE Got((IF Truth(desc) THEN <<desc.s>> ELSE << >>) \o parts.v
                 \o (IF Truth(attrs) /\ attrs.t = "dict" THEN <<"attributes">> ELSE << >>))

\* app/utils _extract_options: the dict members of a list with title and values
utils_extract_options(product_data) ==
    LET options == GetOr(product_data, "options", PyNone)
    IN  IF options.t = "list" THEN Got(cached_options(options.items)) ELSE Got(<< >>)

\* app/utils VvicScraper.scrape from product_data = json_data['data'] on, up
\* to the ProductInfo it constructs
utils_product(url, json_data) ==
    LET product_data == DictGet(json_data, PyStr("data"))
        title == GetOr(product_data, "title", PyStr("Unknown Product"))
        price_text == GetOr(product_data, "price", PyStr("N/A"))
        images == _extract_images(product_data)
        description == utils_extract_description(product_data)
        specs == _extract_specs(product_data)
        options == utils_extract_options(product_data)
        raised == FirstRaised(<<images, description, specs, options>>)
    IN  IF product_data.t # "dict" THEN Raised(<<"AttributeError">>)
        ELSE IF raised # "" THEN Raised(<<raised>>)
        ELSE RetProduct(
                PyDict(<<PyStr("title"), title,
                         PyStr("url"), PyStr(UrlText(url)),
                         PyStr("price"), price_text,
                         PyStr("main_image"),
                             IF images.v = << >> THEN PyNone
                             ELSE ProductImage(PyStr(images.v[1]), title),
                         PyStr("specifications"), specs.v,
                         PyStr("options"), PyList(options.v)>>),
                FALSE)

\* app/utils VvicScraper.scrape(url): every exception is wrapped
VvicScrape(url, status, json_data) ==
    LET item_id == _extract_item_id(url)
        inner == IF item_id = "" THEN Raised(<<"no item id in URL">>)
                 ELSE IF status # 200 THEN Raised(<<"VVIC API HTTP 500">>)
                 ELSE IF json_data.t # "dict" THEN Raised(<<"AttributeError">>)
                 ELSE IF ~envelope_ok(json_data)
                     THEN Raised(<<"VVIC API", EnvelopeMsg(json_data)>>)
                 ELSE utils_product(url, json_data)
        ret == IF inner.kind = "error"
                  THEN Raised(StrategyRaise("VvicScraper", inner.msg)) ELSE inner
    IN  /\ probe' = [op |-> "vvic", pkg |-> "utils", url |-> UrlText(url),
                     status |-> status, json_data |-> json_data,
                     fetched |-> item_id # "", ret |-> ret, wrote |-> FALSE]
        /\ UNCHANGED <<now, dir, written, use_cache, cache_max_age_days, calls, last, pdir,
                       _scrapers, pkg_scrapers, made>>

\* the data object the site sends for an item
GoodData ==
    <<PyStr("title"), PyStr("coat"), PyStr("price"), PyStr("12.50"),
      PyStr("imgs"), PyStr("//cdn/a.jpg,b.jpg")>>

\* data objects: the good one alone, and with one more member, well-formed
\* or not
DataShapes ==
    { PyDict(GoodData \o more) : more \in
        { << >>,
          <<PyStr("color"), PyStr("red,blue")>>,
          <<PyStr("color"), PyList(<<PyStr("red")>>)>>,
          <<PyStr("color_pics"), PyList(<<PyStr("b.jpg"), PyStr("c.jpg")>>)>>,
          <<PyStr("color_pics"), PyList(<<PyInt(1)>>)>>,
          <<PyStr("item_desc"), PyDict(<<PyStr("desc"), PyStr("<p>soft</p>")>>)>>,
          <<PyStr("item_desc"), PyNone>>,
          <<PyStr("breadCrumbs"), PyList(<<PyDict(<<PyStr("name"), PyStr("women")>>)>>)>>,
          <<PyStr("breadCrumbs"), PyList(<<PyDict(<<PyStr("id"), PyInt(7)>>)>>)>>,
          <<PyStr("breadCrumbs"), PyNone>>,
          <<PyStr("attrs_json"), PyDict(<<PyStr("brand name"), PyStr("acme")>>)>>,
          <<PyStr("attrs_json"), PyList(<<PyStr("cotton")>>)>> } }
      \cup { PyDict(<<PyStr("title"), PyStr("coat")>>),
             PyDict(<<PyStr("title"), PyStr("coat"), PyStr("price"), PyStr("N/A"),
                      PyStr("imgs"), PyList(<<PyStr("b.jpg")>>)>>) }

NotFound == PyDict(<<PyStr("code"), PyInt(404), PyStr("msg"), PyStr("not found")>>)

\* answers with status 200
Envelopes ==
    { PyDict(<<PyStr("code"), PyInt(200), PyStr("data"), data>>) : data \in DataShapes }
      \cup { NotFound,
             PyDict(<<PyStr("code"), PyInt(200), PyStr("msg"), PyStr("no data")>>),
             PyDict(<<PyStr("code"), PyInt(500), PyStr("msg"), PyStr("busy"),
                      PyStr("data"), PyDict(GoodData)>>),
             PyDict(<<PyStr("code"), PyStr("200"), PyStr("data"), PyDict(GoodData)>>),
             PyDict(<<PyStr("code"), PyInt(404)>>),
             PyList(<< >>) }

Statuses == {200, 500}

\* a VVIC URL without item id
VvicShop == Url(FALSE, "https://", <<"www", "vvic", "com">>, <<"shop", "9">>)

GoodAnswer == PyDict(<<PyStr("code"), PyInt(200), PyStr("data"), PyDict(GoodData)>>)

InitVvic ==
    /\ now = 0
    /\ dir = << >>
    /\ written = << >>
    /\ use_cache \in BOOLEAN
    /\ cache_max_age_days = DefaultMaxAgeDays
    /\ calls = [p \in Procs |-> Idle]
    /\ last = Done("init", EmptyUrl, RetNone)
    /\ pdir = << >>
    /\ _scrapers = << >>
    /\ pkg_scrapers = << >>
    /\ made = {}
    /\ probe = NoProbe

\* the site's answers: any envelope with status 200, a status 500, and for
\* the good answer a cache write that fails
NextVvic ==
    \/ \E force_refresh \in BOOLEAN, json_data \in Envelopes :
            PkgVvicScrape(VvicUrl, force_refresh, 200, json_data, "ok")
    \/ \E force_refresh \in BOOLEAN, wio \in WriteOutcomes :
            PkgVvicScrape(VvicUrl, force_refresh, 200, GoodAnswer, wio)
    \/ \E url \in {VvicUrl, VvicShop}, force_refresh \in BOOLEAN, status \in Statuses :
            PkgVvicScrape(url, force_refresh, status, NotFound, "ok")
    \/ \E json_data \in Envelopes : VvicScrape(VvicUrl, 200, json_data)
    \/ \E url \in {VvicUrl, VvicShop}, status \in Statuses :
            VvicScrape(url, status, NotFound)
    \/ PkgTick

SpecVvic == InitVvic /\ [][NextVvic]_vars

\* the envelope of an answer reports failure: its code is not 200, or it has
\* no data member
EnvelopeFailed(json_data) ==
    \/ json_data.t # "dict"
    \/ ~HasKey(json_data, PyStr("code"))
    \/ DictGet(json_data, PyStr("code")) # PyInt(200)
    \/ ~HasKey(json_data, PyStr("data"))

\* the strategy took the site's answer, which had status 200
Answered == probe.op = "vvic" /\ probe.fetched /\ probe.status = 200

\* C16: on an answer whose envelope reports failure, both VVIC strategies
\* raise, with the upstream msg in the message of the error; no product is
\* returned and the call leaves the cache directory as it was.
C16_FailedEnvelopeRaisesWithMsg ==
    (Answered /\ EnvelopeFailed(probe.json_data))
        => /\ probe.ret.kind = "error"
           /\ HasKey(probe.json_data, PyStr("msg"))
                => \E i \in DOMAIN probe.ret.msg :
                        probe.ret.msg[i] = DictGet(probe.json_data, PyStr("msg")).s
           /\ ~probe.wrote
           /\ dir = << >>

C16_Witness ==
    /\ Answered
    /\ probe.json_data = NotFound
    /\ probe.ret.kind = "error"
    /\ \E i \in DOMAIN probe.ret.msg : probe.ret.msg[i] = "not found"
    /\ probe.pkg = "scraper"
    /\ pdir # << >>

\* C17: on an answer with status 200 and a successful envelope, for a URL
\* with an item id, both VVIC strategies return a product, whatever the
\* members of the data object are.
C17_DataShapeNeverFatal ==
    (Answered /\ ~EnvelopeFailed(probe.json_data)) => probe.ret.kind = "product"

----------------------------------------------------------------------------
(* SpecImages: the image lists of the strategies                            *)

\* the page whose images the generic strategy extracts
PageUrl == ShopUrl

\* f"{parsed_url.scheme}://{parsed_url.netloc}"
BaseUrl(url) == url.scheme \o JoinDots(url.host)

\* src as _extract_images of the generic strategy appends it: "https:" before
\* a protocol-relative src, the base URL before a root-relative one
Resolved(src, url) ==
    IF src = "//cdn/a.jpg" THEN "https:" \o src
    ELSE IF src = "/img/b.jpg" THEN BaseUrl(url) \o src
    ELSE src

\* the references a page makes to two pictures, and an empty src
Srcs ==
    {"https://cdn/a.jpg", "//cdn/a.jpg", "/img/b.jpg",
     "https://shop.example.com/img/b.jpg", ""}

RECURSIVE SrcsUpTo(_)
SrcsUpTo(n) ==
    IF n = 0 THEN {<< >>}
    ELSE LET shorter == SrcsUpTo(n - 1)
         IN  shorter \cup {Append(q, src) : q \in {x \in shorter : Len(x) = n - 1},
                                            src \in Srcs}

\* a page: the content of og:image ("" for none), the src of the img elements
\* in the order the selector loop meets them, the data-* attribute values in
\* the order the last loop meets them
Pages ==
    [og : {"", "https://cdn/a.jpg"},
     imgs : SrcsUpTo(MaxImgs),
     data : {<< >>, <<"//cdn/a.jpg">>, <<"https://cdn/a.jpg", "/img/b.jpg">>}]

\* the selector loop of GenericScraper._extract_images
RECURSIVE selected_images(_, _, _)
selected_images(srcs, url, images) ==
    IF srcs = << >> THEN images
    ELSE LET src == Head(srcs)
         IN  selected_images(Tail(srcs), url,
                IF src # "" /\ ~\E i \in DOMAIN images : images[i] = src
                    THEN Append(images, Resolved(src, url)) ELSE images)

\* the data-* attribute loop of GenericScraper._extract_images
RECURSIVE data_images(_, _)
data_images(values, images) ==
    IF values = << >> THEN images
    ELSE LET v == Head(values)
         IN  data_images(Tail(values),
                IF v # "" /\ ~\E i \in DOMAIN images : images[i] = v
                    THEN Append(images, v) ELSE images)

\* app/utils GenericScraper._extract_images(soup, url)
generic_extract_images(page, url) ==
    data_images(page.data,
                selected_images(page.imgs, url,
                                IF page.og # "" THEN <<page.og>> ELSE << >>))

\* main_image = images[0], the others the gallery: the list with its main mark
FirstIsMain(urls) == [i \in DOMAIN urls |-> [url |-> urls[i], is_main |-> i = 1]]

\* the image members of a VVIC data object
ImageData ==
    { PyDict(Member("imgs", imgs) \o Member("color_pics", color_pics)) :
        imgs \in {Absent, PyStr(""), PyStr("//cdn/a.jpg,b.jpg"), PyStr("b.jpg,b.jpg"),
                  PyStr(",b.jpg"), PyStr("//cdn/a.jpg,https://cdn/a.jpg")},
        color_pics \in {Absent, PyList(<< >>), PyList(<<PyStr("b.jpg")>>),
                        PyList(<<PyStr("c.jpg"), PyStr("c.jpg")>>),
                        PyList(<<PyStr("//cdn/a.jpg"), PyStr("c.jpg")>>)} }

GivenPage(page) == [op |-> "page", page |-> page]
GivenData(product_data) == [op |-> "data", product_data |-> product_data]

\* GenericScraper: _extract_images and the main image and gallery of scrape
GenericImages ==
    /\ probe.op = "page"
    /\ probe' = [op |-> "images", strategy |-> "utils.GenericScraper",
                 images |-> FirstIsMain(generic_extract_images(probe.page, PageUrl))]
    /\ UNCHANGED <<now, dir, written, use_cache, cache_max_age_days, calls, last, pdir,
                   _scrapers, pkg_scrapers, made>>

\* app/utils VvicScraper: _extract_images and the main image and gallery of scrape
VvicImages ==
    /\ probe.op = "data"
    /\ probe' = [op |-> "images", strategy |-> "utils.VvicScraper",
                 images |-> FirstIsMain(_extract_images(probe.product_data).v)]
    /\ UNCHANGED <<now, dir, written, use_cache, cache_max_age_days, calls, last, pdir,
                   _scrapers, pkg_scrapers, made>>

\* app/scraper VvicScraper._extract_images
PkgVvicImages ==
    /\ probe.op = "data"
    /\ probe' = [op |-> "images", strategy |-> "scraper.VvicScraper",
                 images |-> pkg_extract_images(probe.product_data).v]
    /\ UNCHANGED <<now, dir, written, use_cache, cache_max_age_days, calls, last, pdir,
                   _scrapers, pkg_scrapers, made>>

InitImages ==
    /\ now = 0
    /\ dir = << >>
    /\ written = << >>
    /\ use_cache = TRUE
    /\ cache_max_age_days = DefaultMaxAgeDays
    /\ calls = [p \in Procs |-> Idle]
    /\ last = Done("init", EmptyUrl, RetNone)
    /\ pdir = << >>
    /\ _scrapers = << >>
    /\ pkg_scrapers = << >>
    /\ made = {}
    /\ probe \in {GivenPage(page) : page \in Pages}
                    \cup {GivenData(product_data) : product_data \in ImageData}

NextImages == GenericImages \/ VvicImages \/ PkgVvicImages

SpecImages == InitImages /\ [][NextImages]_vars

\* the final form of an image URL: absolute, with scheme
Final(url) == Resolved(url, PageUrl)

\* C21: no two entries of a strategy's image list have the same final URL.
C21_NoDuplicateImage ==
    probe.op = "images" =>
        \A i, j \in DOMAIN probe.images :
            Final(probe.images[i].url) = Final(probe.images[j].url) => i = j

\* C22: a non-empty image list has exactly one main image, its first entry,
\* and no entry with an empty URL.
C22_FirstImageIsMain ==
    (probe.op = "images" /\ probe.images # << >>)
        => /\ probe.images[1].is_main
           /\ \A i \in DOMAIN probe.images : probe.images[i].is_main => i = 1
           /\ \A i \in DOMAIN probe.images : probe.images[i].url # ""

----------------------------------------------------------------------------
(* SpecTranslate: translate_product_info on the record the pipeline         *)
(* returned.  Records live in a heap, a sequence indexed by object id.      *)

\* what the translation service does with one text: it answers with the
\* translation, it answers with text that is no JSON, or the call raises
Replies == {"translated", "garbled", "raises"}

\* the translation of a text
Ko(text) == "ko:" \o text

\* the value whose JSON text is the translation of the JSON text of v
RECURSIVE KoValue(_)
KoValue(v) ==
    IF v.t = "str" THEN PyStr(Ko(v.s))
    ELSE IF v.t \in {"list", "dict"}
        THEN [v EXCEPT !.items = [i \in DOMAIN v.items |->
                    IF v.t = "dict" /\ IsKeyIndex(i) THEN v.items[i]
                    ELSE KoValue(v.items[i])]]
    ELSE v

\* translate_text(text): the reply stripped, the text itself when the call
\* raised
translate_text(text, reply) ==
    IF text = "" THEN ""
    ELSE IF reply = "raises" THEN text
    ELSE IF reply = "garbled" THEN "garbled"
    ELSE Ko(text)

\* the member translated through json.dumps, translate_text and json.loads;
\* raised when json.dumps cannot serialize the original
translate_json(original, reply) ==
    IF ~JsonSerializable(original) THEN Throws("TypeError")
    ELSE IF reply = "garbled" THEN Got(original)
    ELSE IF reply = "raises" THEN Got(JsonLoad(JsonDump(original)))
    ELSE Got(KoValue(JsonLoad(JsonDump(original))))

\* exchange_rates.get(currency, 1.0)
exchange_rate(currency) ==
    CASE currency = "USD" -> 1375 [] currency = "EUR" -> 1500 [] currency = "JPY" -> 9
      [] currency = "GBP" -> 1750 [] currency = "AUD" -> 900 [] currency = "CAD" -> 1000
      [] currency = "CNY" -> 190 [] currency = "HKD" -> 175 [] OTHER -> 1

\* convert_to_krw: price in hundredths, so is the result
convert_to_krw(price, currency) == price * exchange_rate(currency)

\* translate_product_info(product), product the object id in heap and reply
\* the service's reply per member: the heap afterwards and the object returned
translate_product_info(heap, id, reply) ==
    LET product == heap[id]
        p1 == IF product.title_original # ""
                 THEN [product EXCEPT !.title_translated =
                            translate_text(product.title_original, reply.title)]
                 ELSE product
        p2 == IF p1.description_original # ""
                 THEN [p1 EXCEPT !.description_translated =
                            translate_text(p1.description_original, reply.description)]
                 ELSE p1
        specs == translate_json(p2.specifications_original, reply.specifications)
        p3 == IF Truth(p2.specifications_original)
                 THEN [p2 EXCEPT !.specifications_translated = specs.v]
                 ELSE p2
        options == translate_json(p3.options_original, reply.options)
        p4 == IF Truth(p3.options_original)
                 THEN [p3 EXCEPT !.options_translated = options.v]
                 ELSE p3
        categories == translate_json(p4.categories_original, reply.categories)
        p5 == IF Truth(p4.categories_original)
                 THEN [p4 EXCEPT !.categories_translated = categories.v]
                 ELSE p4
        p6 == IF p5.price_value # 0
                 THEN [p5 EXCEPT !.price_krw = convert_to_krw(p5.price_value, p5.currency)]
                 ELSE p5
        final == IF Truth(p2.specifications_original) /\ specs.raised # "" THEN p2
                 ELSE IF Truth(p3.options_original) /\ options.raised # "" THEN p3
                 ELSE IF Truth(p4.categories_original) /\ categories.raised # "" THEN p4
                 ELSE p6
    IN  [heap |-> [heap EXCEPT ![id] = final], ret |-> id]

\* the records the pipeline returns: the translated members empty, price_krw 0
PipelineRecords ==
    { [title_original |-> title, title_translated |-> "",
       description_original |-> description, description_translated |-> "",
       specifications_original |-> specifications,
       specifications_translated |-> PyDict(<< >>),
       options_original |-> options, options_translated |-> PyList(<< >>),
       categories_original |-> categories, categories_translated |-> PyList(<< >>),
       price_value |-> price_value, price_krw |-> 0, currency |-> "CNY"] :
        title \in {"", "coat"}, description \in {"", "soft"},
        specifications \in {PyDict(<< >>), PyDict(<<PyStr("fabric"), PyStr("wool")>>),
                            TupleKeyed},
        options \in {PyList(<< >>), PyList(<<PyStr("red")>>)},
        categories \in {PyList(<< >>), PyList(<<PyStr("women")>>)},
        price_value \in {0, 1250} }

GivenRecord(product) == [op |-> "record", heap |-> <<product>>]

\* process_product_scraping: translated_info = await translate_product_info(product_info)
Translate(reply) ==
    /\ probe.op = "record"
    /\ LET r == translate_product_info(probe.heap, 1, reply)
       IN  probe' = [op |-> "translate", heap |-> r.heap, product_info |-> 1,
                     translated_info |-> r.ret, before |-> probe.heap[1]]
    /\ UNCHANGED <<now, dir, written, use_cache, cache_max_age_days, calls, last, pdir,
                   _scrapers, pkg_scrapers, made>>

InitTranslate ==
    /\ now = 0
    /\ dir = << >>
    /\ written = << >>
    /\ use_cache = TRUE
    /\ cache_max_age_days = DefaultMaxAgeDays
    /\ calls = [p \in Procs |-> Idle]
    /\ last = Done("init", EmptyUrl, RetNone)
    /\ pdir = << >>
    /\ _scrapers = << >>
    /\ pkg_scrapers = << >>
    /\ made = {}
    /\ probe \in {GivenRecord(product) : product \in PipelineRecords}

NextTranslate ==
    \E reply \in [{"title", "description", "specifications", "options", "categories"}
                    -> Replies] : Translate(reply)

SpecTranslate == InitTranslate /\ [][NextTranslate]_vars

\* C23: translate_product_info returns a record that is not the pipeline's
\* record, and the pipeline's record has afterwards the value it had before.
C23_TranslationLeavesRecord ==
    probe.op = "translate"
        => /\ probe.translated_info # probe.product_info
           /\ probe.heap[probe.product_info] = probe.before

----------------------------------------------------------------------------
(* SpecRetry: POST /api/product/{id}/image/{index}/translate, the request   *)
(* in probe                                                                 *)

\* stop=stop_after_attempt(3)
stop_after_attempt == 3

\* a stop condition that allows one attempt more
stop_one_later(attempt_number) == attempt_number >= stop_after_attempt + 1

\* the stop condition of the retry decorator, after attempt attempt_number
stop(attempt_number) == attempt_number >= stop_after_attempt

\* wait_exponential(multiplier=1, min=1, max=10) after attempt attempt_number
wait_exponential(attempt_number) ==
    LET exp == 2 ^ (attempt_number - 1)
    IN  IF exp < 1 THEN 1 ELSE IF exp > 10 THEN 10 ELSE exp

\* process_image returns the text blocks it found, or none, or raises
ProcessOutcomes == {"textBlocks", "no text", "RequestException", "Exception"}

\* retry=retry_if_exception_type((requests.exceptions.RequestException, Exception))
retry_if_exception_type(outcome) == outcome \in {"RequestException", "Exception"}

\* the images a stored product has, most
StoredImages == 0..3

\* the request is answered
Answer(request, status) == [request EXCEPT !.pc = "done", !.response = status]

\* translate_product_image up to the call of translate_product_image_with_retry
ImageRequest(found, images, image_index, download) ==
    /\ probe.op = "none"
    /\ LET request == [op |-> "image", pc |-> "attempt", found |-> found,
                       images |-> images, image_index |-> image_index,
                       downloads |-> 0, outcomes |-> << >>, waited |-> << >>,
                       response |-> 0]
           asked == [request EXCEPT !.downloads = 1]
       IN  probe' = IF ~found THEN Answer(request, 404)
                    ELSE IF image_index < 0 \/ image_index >= images
                        THEN Answer(request, 404)
                    ELSE IF download # "200" THEN Answer(asked, 400)
                    ELSE asked
    /\ UNCHANGED <<now, dir, written, use_cache, cache_max_age_days, calls, last, pdir,
                   _scrapers, pkg_scrapers, made>>

\* one attempt of translate_product_image_with_retry: process_image returns
\* or raises
Attempt(outcome) ==
    /\ probe.op = "image" /\ probe.pc = "attempt"
    /\ LET tried == [probe EXCEPT !.outcomes = Append(@, outcome)]
       IN  probe' = IF ~retry_if_exception_type(outcome) THEN Answer(tried, 200)
                    ELSE IF stop(Len(tried.outcomes)) THEN Answer(tried, 500)
                    ELSE [tried EXCEPT !.pc = "wait"]
    /\ UNCHANGED <<now, dir, written, use_cache, cache_max_age_days, calls, last, pdir,
                   _scrapers, pkg_scrapers, made>>

\* the wait between two attempts
Backoff ==
    /\ probe.op = "image" /\ probe.pc = "wait"
    /\ probe' = [probe EXCEPT !.pc = "attempt",
                              !.waited = Append(@, wait_exponential(Len(probe.outcomes)))]
    /\ UNCHANGED <<now, dir, written, use_cache, cache_max_age_days, calls, last, pdir,
                   _scrapers, pkg_scrapers, made>>

NextRetry ==
    \/ \E found \in BOOLEAN, images \in StoredImages, image_index \in (0 - 1)..3,
          download \in {"200", "404", "raises"} :
            ImageRequest(found, images, image_index, download)
    \/ \E outcome \in ProcessOutcomes : Attempt(outcome)
    \/ Backoff

SpecRetry == InitCM /\ [][NextRetry]_vars

\* the attempt ended in an exception
Raises(outcome) == outcome \notin {"textBlocks", "no text"}

\* C24: a request makes at most 3 attempts at the image translation, each
\* but the first after a failed one; the first success is answered with 200,
\* three failures with 500; the image is downloaded at most once.
C24_AtMostThreeAttempts ==
    probe.op = "image"
        => /\ Len(probe.outcomes) <= 3
           /\ \A i \in DOMAIN probe.outcomes :
                    i < Len(probe.outcomes) => Raises(probe.outcomes[i])
           /\ probe.downloads <= 1
           /\ (probe.outcomes # << >> /\ ~Raises(probe.outcomes[Len(probe.outcomes)]))
                    => probe.pc = "done" /\ probe.response = 200
           /\ (probe.pc = "done" /\ probe.response = 500)
                    => Len(probe.outcomes) = 3
           /\ (Len(probe.outcomes) = 3 /\ Raises(probe.outcomes[3]))
                    => probe.pc = "done" /\ probe.response = 500

C24_Witness ==
    /\ probe.op = "image"
    /\ probe.pc = "done"
    /\ probe.response = 500
    /\ probe.outcomes = <<"Exception", "RequestException", "Exception">>
    /\ probe.waited = <<1, 2>>

----------------------------------------------------------------------------
(* app/scraper/product_scraper.py: ProductScraper.scrape, the orchestrator's
   call of the strategy it selected *)

\* C26: a scrape call that ends in an error leaves the cache store as it was
\* before the call: no entry is created or overwritten by a call that raises.
C26_ErrorLeavesCacheAlone ==
    (probe.op = "vvic" /\ probe.pkg = "scraper" /\ probe.ret.kind = "error")
        => ~probe.wrote

\* BaseScraper.__init__(self, use_cache=True, cache_max_age_days=7) called
\* with no arguments
base_scraper_init == [use_cache |-> TRUE, cache_max_age_days |-> DefaultMaxAgeDays]

\* ProductScraper.__init__(use_cache, cache_max_age_days): super().__init__()
\* is called without the two arguments, and every strategy is built by
\* scraper_class(), whose __init__(self) calls super().__init__() likewise
pkg_product_scraper_init(use_cache_arg, cache_max_age_days_arg) == base_scraper_init

\* the parameters of AmazonScraper.scrape, a class app/scraper/product_scraper.py
\* imports from a file that is not part of the sources: taken to follow the
\* strategy contract scrape(url, forceRefresh)
amazon_scrape_parameters == {"url", "force_refresh"}

\* the parameters besides self of each strategy's scrape
scrape_parameters(scraper_class) ==
    IF scraper_class = "VvicScraper" THEN {"url", "force_refresh"}
    ELSE IF scraper_class = "AmazonScraper" THEN amazon_scrape_parameters
    ELSE {"url"}

\* AmazonScraper.scrape as the contract has it: the page is fetched, and a
\* status other than 200 is an error
amazon_scrape(url, force_refresh, status) ==
    [pdir |-> pdir, fetched |-> TRUE, cached |-> FALSE,
     ret |-> IF status # 200 THEN Raised(<<"HTTP 500">>)
             ELSE RetProduct(Product(1), FALSE)]

AmazonUrl == Url(FALSE, "https://", <<"www", "amazon", "com">>, <<"dp", "1">>)
EbayUrl == Url(FALSE, "https://", <<"www", "ebay", "com">>, <<"itm", "1">>)

\* ProductScraper.scrape(url, force_refresh): the strategy for the URL's host
\* is selected and called as scraper.scrape(url, force_refresh=force_refresh);
\* a scrape without that parameter raises TypeError on the call
pkg_scrape(url, force_refresh, status, json_data, wio) ==
    LET domain == Netloc(url)
        got == pkg_get_scraper_for_domain(pkg_scrapers, Ever("scraper"), domain)
        scraper_class == got.instance[1]
        accepted == "force_refresh" \in scrape_parameters(scraper_class)
        out == IF ~accepted
                   THEN [pdir |-> pdir, fetched |-> FALSE, cached |-> FALSE,
                         ret |-> Raised(<<"TypeError">>)]
               ELSE IF scraper_class = "VvicScraper"
                   THEN pkg_vvic_scrape(url, force_refresh, status, json_data, wio)
               ELSE amazon_scrape(url, force_refresh, status)
    IN  [got |-> got, scraper_class |-> scraper_class, accepted |-> accepted,
         out |-> out]

\* a direct call of ProductScraper.scrape
PkgScrape(url, force_refresh, status, json_data, wio) ==
    /\ probe.op \in {"constructed", "scrape"}
    /\ LET scraped == pkg_scrape(url, force_refresh, status, json_data, wio)
       IN  /\ pkg_scrapers' = scraped.got.scrapers
           /\ made' = Made("scraper", scraped.got)
           /\ pdir' = scraped.out.pdir
           /\ probe' = [op |-> "scrape", use_cache_arg |-> probe.use_cache_arg,
                        url |-> UrlText(url), scraper_class |-> scraped.scraper_class,
                        accepted |-> scraped.accepted, fetched |-> scraped.out.fetched,
                        cached |-> scraped.out.cached, ret |-> scraped.out.ret,
                        wrote |-> pdir' # pdir]
    /\ UNCHANGED <<now, dir, written, use_cache, cache_max_age_days, calls, last,
                   _scrapers>>

\* ProductScraper(use_cache=..., cache_max_age_days=7), as the router builds it
InitPkgScrape ==
    /\ now = 0
    /\ dir = << >>
    /\ written = << >>
    /\ probe \in {[op |-> "constructed", use_cache_arg |-> a] : a \in BOOLEAN}
    /\ use_cache = pkg_product_scraper_init(probe.use_cache_arg, DefaultMaxAgeDays).use_cache
    /\ cache_max_age_days =
            pkg_product_scraper_init(probe.use_cache_arg, DefaultMaxAgeDays).cache_max_age_days
    /\ calls = [p \in Procs |-> Idle]
    /\ last = Done("init", EmptyUrl, RetNone)
    /\ pdir = << >>
    /\ _scrapers = << >>
    /\ pkg_scrapers = << >>
    /\ made = {}

\* an answer whose envelope is fine and whose imgs member is a list
ListImgsAnswer ==
    PyDict(<<PyStr("code"), PyInt(200), PyStr("data"),
             PyDict(<<PyStr("title"), PyStr("coat"), PyStr("price"), PyStr("N/A"),
                      PyStr("imgs"), PyList(<<PyStr("b.jpg")>>)>>)>>)

NextPkgScrape ==
    \/ \E url \in {ShopUrl, EbayUrl, AmazonUrl, NoHostUrl, VvicShop},
          force_refresh \in BOOLEAN, status \in Statuses :
            PkgScrape(url, force_refresh, status, NotFound, "ok")
    \/ \E force_refresh \in BOOLEAN, json_data \in {NotFound, ListImgsAnswer} :
            PkgScrape(VvicUrl, force_refresh, 200, json_data, "ok")
    \/ \E force_refresh \in BOOLEAN, wio \in WriteOutcomes :
            PkgScrape(VvicUrl, force_refresh, 200, GoodAnswer, wio)
    \/ PkgTick

SpecPkgScrape == InitPkgScrape /\ [][NextPkgScrape]_vars

\* C25: for every host class, ProductScraper.scrape(url, force_refresh)
\* reaches the selected strategy: the strategy's scrape accepts the call the
\* orchestrator makes, and the call does not fail with TypeError.
C25_StrategyAcceptsCall ==
    probe.op = "scrape"
        => /\ probe.accepted
           /\ probe.ret # Raised(<<"TypeError">>)

\* C27: a ProductScraper constructed with use_cache=False never reads and
\* never writes the cache store: no scrape is answered from the cache, no
\* scrape writes an entry, and the store stays empty.
C27_NoCacheWhenDisabled ==
    (probe.op = "scrape" /\ ~probe.use_cache_arg)
        => /\ ~probe.cached
           /\ ~probe.wrote
           /\ pdir = << >>

----------------------------------------------------------------------------
(* The three expiry checks, on a file's age as a timedelta *)

\* an age is counted in parts of a day
UnitsPerDay == 4

\* the largest max_age_days tried
MaxDays == 3

\* timedelta(days=n)
timedelta(days) == days * UnitsPerDay

\* timedelta.days: whole days, rounded down
days_of(age) == age \div UnitsPerDay

\* app/utils CacheManager.has_cache for an existing file:
\* expired when max_age_days > 0 and now - file_time > timedelta(days=max_age_days)
has_cache_at(age, max_age) ==
    IF max_age > 0 /\ age > timedelta(max_age) THEN FALSE ELSE TRUE

\* app/scraper CacheManager._is_cache_valid for an existing file:
\* age < timedelta(days=self.max_age_days)
_is_cache_valid_at(age, max_age) == age < timedelta(max_age)

\* app/scraper BaseScraper._is_cache_valid for an existing file:
\* age.days <= self.cache_max_age_days
base_is_cache_valid_at(age, max_age) == days_of(age) <= max_age

\* the ages tried: up to two days past the limit
Ages == 0..timedelta(MaxDays + 2)

\* the three checks are asked about one file
Classify ==
    /\ probe.op = "entry"
    /\ probe' = [op |-> "expiry", age |-> probe.age, max_age_days |-> probe.max_age_days,
                 has_cache |-> has_cache_at(probe.age, probe.max_age_days),
                 _is_cache_valid |-> _is_cache_valid_at(probe.age, probe.max_age_days),
                 base_is_cache_valid |->
                     base_is_cache_valid_at(probe.age, probe.max_age_days)]
    /\ UNCHANGED <<now, dir, written, use_cache, cache_max_age_days, calls, last, pdir,
                   _scrapers, pkg_scrapers, made>>

\* time passes before the checks are asked
Elapse ==
    /\ probe.op = "entry"
    /\ probe.age + 1 \in Ages
    /\ probe' = [probe EXCEPT !.age = probe.age + 1]
    /\ UNCHANGED <<now, dir, written, use_cache, cache_max_age_days, calls, last, pdir,
                   _scrapers, pkg_scrapers, made>>

InitExpiry ==
    /\ now = 0
    /\ dir = << >>
    /\ written = << >>
    /\ use_cache = TRUE
    /\ cache_max_age_days = DefaultMaxAgeDays
    /\ calls = [p \in Procs |-> Idle]
    /\ last = Done("init", EmptyUrl, RetNone)
    /\ pdir = << >>
    /\ _scrapers = << >>
    /\ pkg_scrapers = << >>
    /\ made = {}
    /\ probe \in {[op |-> "entry", age |-> age, max_age_days |-> max_age] :
                    age \in {0, 1}, max_age \in 1..MaxDays}

NextExpiry == Classify \/ Elapse

SpecExpiry == InitExpiry /\ [][NextExpiry]_vars

\* C28: the three expiry checks classify every pair (file age,
\* max_age_days >= 1) identically: the entry is valid iff its age is at most
\* max_age_days.
C28_SameExpiry ==
    probe.op = "expiry"
        => LET valid == probe.age <= timedelta(probe.max_age_days)
           IN  /\ probe.has_cache = valid
               /\ probe._is_cache_valid = valid
               /\ probe.base_is_cache_valid = valid

----------------------------------------------------------------------------
(* app/utils/generic_scraper.py: GenericScraper.scrape and its price step *)

\* the page BeautifulSoup parsed, with the text of the first element a price
\* selector matches (empty: none matches), and a str
Soup(price) == [t |-> "soup", text |-> price]
Str(text) == [t |-> "str", text |-> text]

\* the loop over price_selectors: the first matching text, or "N/A"
selected_price(soup) == IF soup.text = << >> THEN NA ELSE soup.text

\* GenericScraper._extract_price(self, soup), which overrides
\* BaseScraper._extract_price(self, price_text): self._extract_price(price_text)
\* at its end is a call of this method again, with a str for soup, and a str
\* has no select_one
RECURSIVE generic_extract_price(_)
generic_extract_price(soup) ==
    IF soup.t # "soup" THEN Throws("AttributeError")
    ELSE LET price_text == selected_price(soup)
             price_value == generic_extract_price(Str(price_text))
         IN  IF price_value.raised # "" THEN price_value
             ELSE Got(Price(price_text, price_value.v))

\* GenericScraper.scrape(url), the site answering with status and the page;
\* the handler wraps whatever was raised in a new Exception
generic_scrape(status, soup) ==
    IF status # 200 THEN Raised(<<"collect failed", "HTTP 500">>)
    ELSE LET price == generic_extract_price(soup)
         IN  IF price.raised # "" THEN Raised(<<"collect failed", price.raised>>)
             ELSE RetProduct(PyDict(<<PyStr("raw_data"),
                                      PyDict(<<PyStr("source"), PyStr("generic")>>)>>),
                             FALSE)

\* a direct call of GenericScraper.scrape
GenericScrape(status) ==
    /\ probe.op = "text"
    /\ LET soup == Soup(probe.price_text)
           price == generic_extract_price(soup)
       IN  probe' = [op |-> "generic", status |-> status, price_text |-> probe.price_text,
                     ret |-> generic_scrape(status, soup),
                     price |-> IF price.raised = "" THEN price.v ELSE Price(<< >>, Zero)]
    /\ UNCHANGED <<now, dir, written, use_cache, cache_max_age_days, calls, last, pdir,
                   _scrapers, pkg_scrapers, made>>

NextGeneric == \E status \in Statuses : GenericScrape(status)

SpecGeneric == InitPrice /\ [][NextGeneric]_vars

\* C29: for a page fetched with status 200 the generic strategy returns a
\* product whose price is the shared price parser's result on the selected
\* price text, and 0.0 with the text N/A when no price selector matches.
C29_GenericPriceParsed ==
    (probe.op = "generic" /\ probe.status = 200)
        => /\ probe.ret.kind = "product"
           /\ probe.price = utils_extract_price(selected_price(Soup(probe.price_text)))
           /\ probe.price_text = << >> => probe.price = Price(NA, Zero)

----------------------------------------------------------------------------
(* app/routers/product_router.py: process_product_scraping and the product
   table *)

\* the most rows the table is let grow to
MaxRows == 3

\* product_url with "https://" put in front when it starts with no scheme
with_scheme(product_url) ==
    IF product_url.scheme = "" THEN [product_url EXCEPT !.scheme = "https://"]
    ELSE product_url

\* db.query(Product).filter(Product.url == product_url).first(): the index of
\* the first row with the URL, 0 for None
first_with_url(rows, url_text) ==
    LET found == {i \in DOMAIN rows : rows[i].url = url_text}
    IN  IF found = {} THEN 0 ELSE CHOOSE i \in found : \A j \in found : i <= j

\* the table after the database step of process_product_scraping, a row
\* being its id, its url and its updated_at (-1: never updated); commit is
\* "ok" or "fail", and a failed commit is rolled back
saved_rows(rows, url_text, force_refresh, t, commit) ==
    LET existing_product == IF force_refresh THEN first_with_url(rows, url_text) ELSE 0
    IN  IF commit = "fail" THEN rows
        ELSE IF existing_product # 0
            THEN [rows EXCEPT ![existing_product].updated_at = t]
        ELSE Append(rows, [id |-> Len(rows) + 1, url |-> url_text, updated_at |-> 0 - 1])

\* process_product_scraping after the scrape: the database step follows a
\* product only; what the request did to the table, and how it ended
after_scrape(got_product, rows, url_text, force_refresh, t, commit) ==
    LET saved == IF got_product THEN saved_rows(rows, url_text, force_refresh, t, commit)
                 ELSE rows
    IN  [op |-> "db", rows |-> saved,
         had_row |-> first_with_url(rows, url_text) # 0,
         added |-> Len(saved) - Len(rows),
         changed |-> saved # rows,
         url |-> url_text, force_refresh |-> force_refresh,
         response |-> IF ~got_product THEN "raised"
                      ELSE IF commit = "fail" THEN "HTTPException(500)"
                      ELSE "returned"]

\* process_product_scraping(product_url, force_refresh, db), the site
\* answering the scrape with status and json_data
ProcessProductScraping(product_url0, force_refresh, status, json_data, commit) ==
    /\ probe.op = "db"
    /\ Len(probe.rows) < MaxRows
    /\ \E product_url \in {with_scheme(product_url0)}, got_product \in BOOLEAN :
         LET scraped == pkg_scrape(product_url, force_refresh, status, json_data, "ok")
         IN  /\ got_product = (scraped.out.ret.kind = "product")
             /\ pkg_scrapers' = scraped.got.scrapers
             /\ made' = Made("scraper", scraped.got)
             /\ pdir' = scraped.out.pdir
             /\ probe' = after_scrape(got_product, probe.rows, UrlText(product_url),
                                      force_refresh, now, commit)
    /\ UNCHANGED <<now, dir, written, use_cache, cache_max_age_days, calls, last,
                   _scrapers>>

\* scraper = ProductScraper(use_cache=True, cache_max_age_days=7), and an
\* empty table
InitTable ==
    /\ now = 0
    /\ dir = << >>
    /\ written = << >>
    /\ use_cache = pkg_product_scraper_init(TRUE, DefaultMaxAgeDays).use_cache
    /\ cache_max_age_days = pkg_product_scraper_init(TRUE, DefaultMaxAgeDays).cache_max_age_days
    /\ calls = [p \in Procs |-> Idle]
    /\ last = Done("init", EmptyUrl, RetNone)
    /\ pdir = << >>
    /\ _scrapers = << >>
    /\ pkg_scrapers = << >>
    /\ made = {}
    /\ probe = [op |-> "db", rows |-> << >>, had_row |-> FALSE, added |-> 0,
                changed |-> FALSE, url |-> "", force_refresh |-> FALSE,
                response |-> "none"]

NextTable ==
    \/ \E product_url \in {VvicUrl, NoHostUrl}, force_refresh \in BOOLEAN,
          commit \in {"ok", "fail"} :
            ProcessProductScraping(product_url, force_refresh, 200, GoodAnswer, commit)
    \/ \E product_url \in {VvicUrl, ShopUrl, VvicShop}, force_refresh \in BOOLEAN,
          status \in Statuses :
            ProcessProductScraping(product_url, force_refresh, status, NotFound, "ok")
    \/ PkgTick

SpecTable == InitTable /\ [][NextTable]_vars

\* C30: the product table holds at most one row per product URL: a request
\* for a URL that already has a row adds no row, and a request that ended in
\* an error left the table as it was.
C30_OneRowPerUrl ==
    probe.op = "db"
        => /\ \A i, j \in DOMAIN probe.rows :
                    probe.rows[i].url = probe.rows[j].url => i = j
           /\ probe.had_row => probe.added = 0
           /\ probe.response \in {"raised", "HTTPException(500)"} => ~probe.changed

====
